---------------------------- MODULE Spec2Model ----------------------------
(***************************************************************************)
(* Astrolabe (server.js): the request-routing and quality-escalation       *)
(* pipeline of POST /v1/chat/completions, as a state machine.              *)
(*                                                                         *)
(* Texts are sequences of words.  Two adjacent words stand for two words   *)
(* separated by one space; the word NL stands for a separator that no      *)
(* multi-word phrase of the source's regular expressions can span.  A      *)
(* regular expression of the form \b(a|b c|...)\b is the set of its        *)
(* alternatives, each a sequence of words.                                 *)
(***************************************************************************)
EXTENDS Integers, Sequences, FiniteSets, TLC

(***************************************************************************)
(* Bounds of the model.                                                    *)
(***************************************************************************)
MaxTextLen == 3
MaxChunks == 2

\* an upstream call fails at most MaxFailures times per request
MaxFailures == 1

\* a configuration differs from the default one in at most MaxNonDefault settings
MaxNonDefault == 1

(***************************************************************************)
(* Small helpers over sequences and sets.                                  *)
(***************************************************************************)
Range(s) == { s[i] : i \in 1..Len(s) }

SeqsUpTo(S, n) == UNION { [1..k -> S] : k \in 0..n }

Max2(a, b) == IF a >= b THEN a ELSE b

Min2(a, b) == IF a <= b THEN a ELSE b

\* Array.filter
RECURSIVE FilterSeq(_, _)
FilterSeq(s, keep) ==
  IF s = <<>> THEN <<>>
  ELSE IF Head(s) \in keep THEN <<Head(s)>> \o FilterSeq(Tail(s), keep)
  ELSE FilterSeq(Tail(s), keep)

\* dedupe(values): first occurrences, in order
RECURSIVE dedupeFrom(_, _)
dedupeFrom(s, seen) ==
  IF s = <<>> THEN <<>>
  ELSE IF Head(s) \in seen THEN dedupeFrom(Tail(s), seen)
  ELSE <<Head(s)>> \o dedupeFrom(Tail(s), seen \cup {Head(s)})

dedupe(s) == dedupeFrom(s, {})

(***************************************************************************)
(* The model registry and the static tables.                               *)
(***************************************************************************)
ModelKeys ==
  {"opus", "sonnet", "m25", "kimiK25", "glm5", "grok", "nano", "dsCoder", "gemFlash", "gem31Pro"}

MODELS ==
  [ opus     |-> "anthropic/claude-opus-4.6",
    sonnet   |-> "anthropic/claude-sonnet-4.6",
    m25      |-> "minimax/minimax-m2.5",
    kimiK25  |-> "moonshotai/kimi-k2.5",
    glm5     |-> "z-ai/glm-5",
    grok     |-> "x-ai/grok-4.1-fast",
    nano     |-> "openai/gpt-5-nano",
    dsCoder  |-> "deepseek/deepseek-v3.2",
    gemFlash |-> "google/gemini-3-flash-preview",
    gem31Pro |-> "google/gemini-3.1-pro-preview" ]

\* null of the source
Null == "null"

modelIdForKey(modelKey) == IF modelKey \in DOMAIN MODELS THEN MODELS[modelKey] ELSE Null

CATEGORY_IDS ==
  << "heartbeat", "core_loop", "retrieval", "summarization", "planning", "orchestration",
     "coding", "research", "creative", "communication", "high_stakes", "reflection" >>

InjectionRisk ==
  [ heartbeat |-> "LOW", core_loop |-> "HIGH", retrieval |-> "MEDIUM-HIGH",
    summarization |-> "MEDIUM", planning |-> "MEDIUM-HIGH", orchestration |-> "HIGH",
    coding |-> "HIGH", research |-> "HIGH", creative |-> "LOW", communication |-> "MEDIUM",
    high_stakes |-> "CRITICAL", reflection |-> "MEDIUM" ]

\* classifierSignals: a signal a_b is the phrase <<a, b>> (the regular
\* expression a[\s_-]*b on words separated by one space)
classifierSignals ==
  [ heartbeat |-> << <<"heartbeat">>, <<"ping">>, <<"status">>, <<"health", "check">>, <<"alive">>,
                     <<"compaction">>, <<"session", "health">> >>,
    core_loop |-> << <<"tool", "use">>, <<"function", "call">>, <<"react", "loop">>,
                     <<"tool", "selection">>, <<"retry">>, <<"confidence", "check">> >>,
    retrieval |-> << <<"calendar">>, <<"email", "search">>, <<"web", "search">>, <<"web", "fetch">>,
                     <<"memory", "search">>, <<"weather">>, <<"lookup">>, <<"find">> >>,
    summarization |-> << <<"summarize">>, <<"extract">>, <<"digest">>, <<"key", "points">>,
                         <<"receipt">>, <<"invoice">>, <<"action", "items">> >>,
    planning |-> << <<"plan">>, <<"break", "down">>, <<"schedule">>, <<"steps">>, <<"itinerary">>,
                    <<"workflow">>, <<"sub", "agent">>, <<"coordinate">> >>,
    orchestration |-> << <<"browser">>, <<"automation">>, <<"shell">>, <<"git">>, <<"multi", "step">>,
                         <<"checkout">>, <<"form", "fill">>, <<"sequential">> >>,
    coding |-> << <<"code">>, <<"debug">>, <<"refactor">>, <<"test">>, <<"function">>, <<"script">>,
                  <<"git", "commit">>, <<"pr", "review">>, <<"architecture">> >>,
    research |-> << <<"research">>, <<"analysis">>, <<"synthesize">>, <<"literature">>,
                    <<"competitive">>, <<"report">>, <<"deep", "dive">>, <<"compare">> >>,
    creative |-> << <<"brainstorm">>, <<"creative">>, <<"story">>, <<"write">>, <<"copy">>,
                    <<"ideas">>, <<"design">>, <<"blog">>, <<"poem">> >>,
    communication |-> << <<"message">>, <<"reply">>, <<"chat">>, <<"email", "reply">>, <<"slack">>,
                         <<"negotiate">>, <<"support">>, <<"conversation">> >>,
    high_stakes |-> << <<"payment">>, <<"invoice">>, <<"transfer">>, <<"contract">>, <<"legal">>,
                       <<"password">>, <<"pii">>, <<"health">>, <<"sensitive">>, <<"irreversible">> >>,
    reflection |-> << <<"reflect">>, <<"debug", "self">>, <<"stuck">>, <<"loop", "detected">>,
                      <<"failure">>, <<"improve">>, <<"learn">>, <<"retry", "strategy">> >> ]

COMPLEXITY_ORDER == << "simple", "standard", "complex", "critical" >>

MODEL_FALLBACKS ==
  [ nano     |-> << "grok", "m25", "dsCoder", "kimiK25", "glm5", "gemFlash", "sonnet" >>,
    dsCoder  |-> << "grok", "m25", "glm5", "kimiK25", "gemFlash", "sonnet" >>,
    gemFlash |-> << "grok", "m25", "kimiK25", "glm5", "sonnet", "opus" >>,
    grok     |-> << "nano", "m25", "kimiK25", "glm5", "gemFlash", "sonnet" >>,
    gem31Pro |-> << "kimiK25", "grok", "m25", "glm5", "sonnet", "opus" >>,
    m25      |-> << "glm5", "kimiK25", "sonnet", "gem31Pro", "grok", "opus" >>,
    kimiK25  |-> << "gem31Pro", "grok", "nano", "m25", "sonnet", "opus" >>,
    glm5     |-> << "m25", "grok", "kimiK25", "gem31Pro", "sonnet", "opus" >>,
    sonnet   |-> << "m25", "glm5", "kimiK25", "grok", "gem31Pro", "opus" >>,
    opus     |-> << "sonnet", "m25", "glm5", "kimiK25" >> ]

ESCALATION_PATH ==
  [ nano |-> "grok", dsCoder |-> "m25", gemFlash |-> "grok", grok |-> "m25", gem31Pro |-> "m25",
    m25 |-> "sonnet", kimiK25 |-> "sonnet", glm5 |-> "sonnet", sonnet |-> "opus", opus |-> Null ]

MULTIMODAL_FALLBACK_KEYS == << "kimiK25", "gem31Pro", "grok", "nano", "sonnet", "opus" >>

HIGH_STAKES_ACTION_REGEX ==
  { <<"transfer">>, <<"wire">>, <<"send", "money">>, <<"payment">>, <<"pay">>, <<"purchase">>,
    <<"buy">>, <<"sell">>, <<"contract", "sign">>, <<"approve">>, <<"delete">>, <<"erase">>,
    <<"reset", "password">>, <<"share", "pii">>, <<"submit", "legal">> }

HIGH_STAKES_SYNONYMS ==
  << <<"social", "security">>, <<"ssn">>, <<"bank", "account">>, <<"routing", "number">>,
     <<"medical", "record">>, <<"health", "data">>, <<"passport">>, <<"driver", "license">>,
     <<"tax", "return">> >>

HIGH_STAKES_WEAK_SIGNALS ==
  { <<"invoice">>, <<"contract">>, <<"legal">>, <<"health">>, <<"sensitive">> }

ONBOARDING_CHAT_REGEX ==
  { <<"name">>, <<"call", "me">>, <<"my", "name", "is">>, <<"nickname">>, <<"introduce">>,
    <<"introduction">>, <<"setup">>, <<"set", "up">>, <<"persona">>, <<"profile">>, <<"roleplay">>,
    <<"character">>, <<"identity">>, <<"who", "are", "you">> }

CASUAL_CHAT_REGEX ==
  { <<"hello">>, <<"hi">>, <<"hey">>, <<"thanks">>, <<"thank", "you">>, <<"good", "morning">>,
    <<"good", "evening">>, <<"nice", "to", "meet">>, <<"how", "are", "you">> }

ARCHITECTURE_SIGNAL_REGEX ==
  { <<"architecture">>, <<"architect">>, <<"system", "design">>, <<"design", "doc">>,
    <<"scalability">>, <<"migrate">>, <<"migration">>, <<"distributed">>,
    <<"service", "boundaries">>, <<"module", "boundaries">>, <<"codebasewide">>,
    <<"codebase", "wide">> }

DEEP_ANALYSIS_SIGNAL_REGEX ==
  { <<"deepanalysis">>, <<"deep", "analysis">>, <<"deepdive">>, <<"deep", "dive">>, <<"citation">>,
    <<"citations">>, <<"cite">>, <<"source">>, <<"sources">>, <<"comparison">>, <<"compare">>,
    <<"comparative">>, <<"competitive">>, <<"literature">>, <<"benchmark">>, <<"tradeoff">>,
    <<"trade", "off">>, <<"synthesize">> }

(***************************************************************************)
(* Words and texts.                                                        *)
(***************************************************************************)
NL == "\n"

\* String.prototype.toLowerCase on the words of the model's vocabulary
toLowerCase(w) ==
  CASE w = "SSN" -> "ssn"
    [] w = "Transfer" -> "transfer"
    [] w = "Invoice" -> "invoice"
    [] OTHER -> w

\* regex.test(text) for a case-insensitive \b(phrase)\b
MatchesPhrase(text, phrase) ==
  \E i \in 1..(Len(text) - Len(phrase) + 1) :
    \A j \in 1..Len(phrase) : toLowerCase(text[i + j - 1]) = phrase[j]

\* regex.test(text) for a case-insensitive \b(p1|p2|...)\b
MatchesAny(text, phrases) == \E p \in phrases : MatchesPhrase(text, p)

collectMatchedSignals(text, signals) ==
  dedupe(FilterSeq(signals, { s \in Range(signals) : MatchesPhrase(text, s) }))

(***************************************************************************)
(* State.                                                                  *)
(*   cfg   the configuration read from the environment at start-up         *)
(*   req   the request being handled                                       *)
(* The other variables are the handler's locals, the upstream calls made   *)
(* for the request and the response; they are declared here and described  *)
(* with the handler below.                                                 *)
(***************************************************************************)
VARIABLES cfg, req, pc, safetyGate, classifierResult, resolved, routeDecision,
          chain, inFlight, upstreamCalls, escalationCalls, selfCheckRuns,
          result, res, failures, probe

vars == << cfg, req, pc, safetyGate, classifierResult, resolved, routeDecision,
           chain, inFlight, upstreamCalls, escalationCalls, selfCheckRuns,
           result, res, failures, probe >>

(***************************************************************************)
(* Characters and strings of the confirmation protocol: a value is either  *)
(* a string, Str(s) with s a sequence of characters, or NoValue, a value   *)
(* that is not a string (absent, true, a number).                          *)
(***************************************************************************)
NoValue == [ isString |-> FALSE, chars |-> <<>> ]

Str(s) == [ isString |-> TRUE, chars |-> s ]

lowerChar(c) ==
  CASE c = "O" -> "o"
    [] c = "K" -> "k"
    [] OTHER -> c

strToLowerCase(s) == [ i \in 1..Len(s) |-> lowerChar(s[i]) ]

RECURSIVE trimStart(_)
trimStart(s) == IF s # <<>> /\ Head(s) = " " THEN trimStart(Tail(s)) ELSE s

RECURSIVE trimEnd(_)
trimEnd(s) == IF s # <<>> /\ s[Len(s)] = " " THEN trimEnd(SubSeq(s, 1, Len(s) - 1)) ELSE s

trim(s) == trimEnd(trimStart(s))

DefaultConfirmToken == << "c", "o", "n", "f", "i", "r", "m" >>

\* String(env || "confirm").trim().toLowerCase() || "confirm"
HIGH_STAKES_CONFIRM_TOKEN ==
  LET raw == IF cfg.confirmTokenEnv = <<>> THEN DefaultConfirmToken ELSE cfg.confirmTokenEnv
      norm == strToLowerCase(trim(raw))
  IN  IF norm = <<>> THEN DefaultConfirmToken ELSE norm

\* variant: the value is compared as supplied
matchesConfirmTokenExact(value) ==
  /\ value.isString
  /\ value.chars = HIGH_STAKES_CONFIRM_TOKEN

matchesConfirmToken(value) ==
  /\ value.isString
  /\ strToLowerCase(trim(value.chars)) = HIGH_STAKES_CONFIRM_TOKEN

isHighStakesConfirmed(r) ==
  \/ matchesConfirmToken(r.header)
  \/ matchesConfirmToken(r.metadata)
  \/ matchesConfirmToken(r.body)

(***************************************************************************)
(* Feature extraction, for a conversation of one user message whose text   *)
(* has promptLen characters.                                               *)
(***************************************************************************)
CeilDiv(a, b) == (a + b - 1) \div b

extractConversationFeatures(r) ==
  [ messageCount     |-> 1,
    toolMessages     |-> 0,
    hasMultimodal    |-> r.hasMultimodal,
    hasToolsDeclared |-> r.hasToolsDeclared,
    approxTokens     |-> CeilDiv(r.promptLen, 4) ]

\* `${lastUserMessage}\n${recentContext}`, recentContext = "user: <text>"
safetyTextOf(r) == r.text \o << NL, "user", NL >> \o r.text

\* the length of the normalized classification text: the message, a
\* newline, "user: " and the message cut to 320 characters
classificationTextLen(r) == r.promptLen + 1 + 6 + Min2(r.promptLen, 320)

(***************************************************************************)
(* Safety gate.                                                            *)
(***************************************************************************)
WeakTriggerCount == 2

\* variant: one weak signal triggers
gateResultOneWeak(baseMatches, synonymMatches, actionLike) ==
  [ triggered |-> actionLike \/ Len(synonymMatches) > 0 \/ Len(baseMatches) > 0,
    matchedSignals |-> dedupe(baseMatches \o synonymMatches),
    actionLike |-> actionLike ]

\* the result computed from the three kinds of matches
gateResult(baseMatches, synonymMatches, actionLike) ==
  LET strongMatches   == FilterSeq(baseMatches, Range(baseMatches) \ HIGH_STAKES_WEAK_SIGNALS)
      weakMatches     == FilterSeq(baseMatches, HIGH_STAKES_WEAK_SIGNALS)
      weakOnlyTriggered == Len(weakMatches) >= WeakTriggerCount
  IN  [ triggered |-> actionLike \/ Len(synonymMatches) > 0 \/ Len(strongMatches) > 0
                        \/ weakOnlyTriggered,
        matchedSignals |-> dedupe(baseMatches \o synonymMatches),
        actionLike |-> actionLike ]

detectSafetyGate(text) ==
  IF ~cfg.ENABLE_SAFETY_GATE
  THEN [ triggered |-> FALSE, matchedSignals |-> <<>>, actionLike |-> FALSE ]
  ELSE gateResult(collectMatchedSignals(text, classifierSignals["high_stakes"]),
                  FilterSeq(HIGH_STAKES_SYNONYMS,
                            { s \in Range(HIGH_STAKES_SYNONYMS) : MatchesPhrase(text, s) }),
                  MatchesAny(text, HIGH_STAKES_ACTION_REGEX))

(***************************************************************************)
(* Routing resolver.                                                       *)
(***************************************************************************)
IndexOf(seq, x) == IF x \in Range(seq) THEN CHOOSE i \in 1..Len(seq) : seq[i] = x ELSE 0

riskRank(risk) ==
  CASE risk = "CRITICAL" -> 5
    [] risk = "HIGH" -> 4
    [] risk = "MEDIUM-HIGH" -> 3
    [] risk = "MEDIUM" -> 2
    [] OTHER -> 1

\* variant: the shift moves two levels
shiftComplexityTwoLevels(complexity, delta) ==
  LET index == IndexOf(COMPLEXITY_ORDER, complexity)
  IN  IF index < 1 THEN complexity
      ELSE COMPLEXITY_ORDER[Max2(1, Min2(Len(COMPLEXITY_ORDER), index + 2 * delta))]

shiftComplexity(complexity, delta) ==
  LET index == IndexOf(COMPLEXITY_ORDER, complexity)
  IN  IF index < 1 THEN complexity
      ELSE COMPLEXITY_ORDER[Max2(1, Min2(Len(COMPLEXITY_ORDER), index + delta))]

applyRoutingProfile(complexity, categoryId) ==
  IF complexity \notin Range(COMPLEXITY_ORDER) THEN "standard"
  ELSE IF cfg.ROUTING_PROFILE = "quality" THEN shiftComplexity(complexity, 1)
  ELSE IF cfg.ROUTING_PROFILE = "budget" THEN
    IF categoryId \notin Range(CATEGORY_IDS) THEN complexity
    ELSE IF riskRank(InjectionRisk[categoryId]) >= 3 THEN complexity
    ELSE shiftComplexity(complexity, -1)
  ELSE complexity

\* the route(modelKey, label, rule) closure; rule is the justification
\* trail, a sequence of entries, each entry a tuple of strings
route(categoryId, modelKey, label, rule) ==
  [ categoryId |-> categoryId, modelKey |-> modelKey, modelId |-> modelIdForKey(modelKey),
    label |-> label, rule |-> << << rule >> >> ]

\* the categories whose policy is: critical -> opus, simple -> a budget
\* model, otherwise m25
TieredRoute(categoryId, complexity, simpleKey, simpleLabel, midLabel, rules) ==
  IF complexity = "critical" THEN route(categoryId, "opus", "ESCALATE", rules[1])
  ELSE IF complexity = "simple" THEN route(categoryId, simpleKey, simpleLabel, rules[2])
  ELSE route(categoryId, "m25", midLabel, rules[3])

resolveCategoryRoute(categoryId, complexity) ==
  CASE categoryId = "heartbeat" ->
         IF complexity = "simple" THEN route(categoryId, "nano", "DEFAULT", "Simple ping / status")
         ELSE IF complexity = "standard"
           THEN route(categoryId, "grok", "BUDGET", "Context compaction / memory management")
         ELSE route(categoryId, "m25", "VALUE", "Complex health diagnostics")
    [] categoryId = "core_loop" ->
         TieredRoute(categoryId, complexity, "grok", "BUDGET", "DEFAULT",
           << "Ultra-critical / long-horizon planning", "Simple tool call",
              "Standard and complex tool chains" >>)
    [] categoryId = "retrieval" ->
         TieredRoute(categoryId, complexity, "nano", "DEFAULT", "VALUE",
           << "High-stakes retrieval", "Simple lookup", "Fetch and synthesize across sources" >>)
    [] categoryId = "summarization" ->
         IF complexity = "critical"
           THEN route(categoryId, "opus", "ESCALATE", "Ultra-critical legal/financial summarization")
         ELSE IF complexity = "simple"
           THEN route(categoryId, "nano", "DEFAULT", "Short input simple extraction")
         ELSE IF complexity = "complex"
           THEN route(categoryId, "gem31Pro", "MID-TIER",
                      "Long input or high-precision multimodal extraction")
         ELSE route(categoryId, "m25", "VALUE", "Medium text summarization and extraction")
    [] categoryId = "planning" ->
         TieredRoute(categoryId, complexity, "grok", "DEFAULT", "VALUE",
           << "Mission-critical planning", "Routine planning", "Multi-constraint planning" >>)
    [] categoryId = "orchestration" ->
         TieredRoute(categoryId, complexity, "grok", "BUDGET", "DEFAULT",
           << "High-stakes recovery orchestration", "Simple repetitive orchestration",
              "Standard and complex automation chains" >>)
    [] categoryId = "coding" ->
         TieredRoute(categoryId, complexity, "dsCoder", "BUDGET", "DEFAULT",
           << "Large refactors / production-critical", "Quick script / small fix",
              "Standard and complex feature implementation / debugging" >>)
    [] categoryId = "research" ->
         TieredRoute(categoryId, complexity, "grok", "DEFAULT", "DEFAULT",
           << "Ultra-high-stakes synthesis", "Routine research and lightweight analysis",
              "Deep text-heavy synthesis and comparative analysis" >>)
    [] categoryId = "creative" ->
         TieredRoute(categoryId, complexity, "grok", "DEFAULT", "VALUE",
           << "Professional long-form creative campaigns", "Brainstorming and playful ideation",
              "High-quality style adherence" >>)
    [] categoryId = "communication" ->
         TieredRoute(categoryId, complexity, "grok", "DEFAULT", "VALUE",
           << "Sensitive negotiation / legal / crisis messaging", "Casual messaging",
              "Professional communication" >>)
    [] categoryId = "reflection" ->
         TieredRoute(categoryId, complexity, "grok", "DEFAULT", "VALUE",
           << "Critical stuck-state recovery", "Routine reflection", "Serious failure analysis" >>)
    [] categoryId = "high_stakes" ->
         IF cfg.ALLOW_HIGH_STAKES_BUDGET_FLOOR /\ cfg.ROUTING_PROFILE = "budget"
           THEN route(categoryId, "sonnet", "FLOOR", "Budget forced floor with strict follow-up checks")
         ELSE route(categoryId, "opus", "ALWAYS", "Safety gate hard-route")
    [] OTHER -> route(categoryId, "m25", "VALUE", "Unknown category fallback")

\* normalizeCategoryId / normalizeComplexity on values that are already
\* category ids / complexity levels, or unknown
normalizeCategoryId(raw) == IF raw \in Range(CATEGORY_IDS) THEN raw ELSE Null

normalizeComplexity(raw) ==
  CASE raw \in Range(COMPLEXITY_ORDER) -> raw
    [] raw \in {"routine", "low"} -> "simple"
    [] raw \in {"medium", "moderate"} -> "standard"
    [] raw \in {"hard", "high"} -> "complex"
    [] OTHER -> Null

Forced == cfg.FORCE_MODEL_ID # ""

resolveRouteDecision(classification, gate) ==
  IF Forced THEN
    [ categoryId |-> classification.categoryId,
      complexity |-> classification.complexity,
      adjustedComplexity |-> classification.complexity,
      modelKey |-> Null,
      modelId |-> cfg.FORCE_MODEL_ID,
      label |-> "FORCED",
      rule |-> << << "ASTROLABE_FORCE_MODEL override" >> >>,
      injectionRisk |-> IF classification.categoryId \in Range(CATEGORY_IDS)
                          THEN InjectionRisk[classification.categoryId] ELSE "UNKNOWN",
      safetyGateTriggered |-> gate.triggered ]
  ELSE
    LET c0 == normalizeCategoryId(classification.categoryId)
        categoryId == IF c0 = Null THEN "communication" ELSE c0
        x0 == normalizeComplexity(classification.complexity)
        baseComplexity == IF x0 = Null THEN "standard" ELSE x0
        adjustedComplexity == applyRoutingProfile(baseComplexity, categoryId)
        r == resolveCategoryRoute(categoryId, adjustedComplexity)
    IN  [ categoryId |-> categoryId,
          complexity |-> baseComplexity,
          adjustedComplexity |-> adjustedComplexity,
          modelKey |-> r.modelKey,
          modelId |-> r.modelId,
          label |-> r.label,
          rule |-> r.rule,
          injectionRisk |-> InjectionRisk[categoryId],
          safetyGateTriggered |-> gate.triggered ]

(***************************************************************************)
(* Cost guardrail.  A message is [text, len]: its words and the length in  *)
(* characters of its whitespace-normalized text.                           *)
(***************************************************************************)
isOnboardingLikeRequest(text) ==
  MatchesAny(text, ONBOARDING_CHAT_REGEX) \/ MatchesAny(text, CASUAL_CHAT_REGEX)

hasArchitectureSignals(text) == MatchesAny(text, ARCHITECTURE_SIGNAL_REGEX)

hasDeepAnalysisSignals(text) == MatchesAny(text, DEEP_ANALYSIS_SIGNAL_REGEX)

withRoutedModel(rd, modelKey, label, guardrailReason) ==
  LET modelId == modelIdForKey(modelKey)
  IN  IF modelId = Null THEN rd
      ELSE [ rd EXCEPT !.modelKey = modelKey,
                       !.modelId = modelId,
                       !.label = IF label # "" THEN label ELSE rd.label,
                       !.rule = Append(rd.rule, guardrailReason) ]

valueTierModelForCategory(categoryId) == "m25"

target(modelKey, reason) == [ modelKey |-> modelKey, reason |-> reason ]

\* the specialist picks shared by the critical and the complex branch
LargeContextTarget(level, categoryId, hasMultimodal, approxTokens, arch, deep, fallbackReason) ==
  IF hasMultimodal THEN
    IF approxTokens >= 30000
      THEN target("gem31Pro", << level, "multimodal requests with very long context use mid-tier multimodal model" >>)
    ELSE target("kimiK25", << level, "multimodal requests default to multimodal specialist" >>)
  ELSE IF categoryId = "coding" /\ approxTokens >= 8000 /\ arch
    THEN target("glm5", << level, "large-context coding uses engineering specialist" >>)
  ELSE IF categoryId \in {"research", "planning", "reflection"} /\ approxTokens >= 12000 /\ deep
    THEN target("glm5", << level, "large-context analytical tasks use engineering specialist" >>)
  ELSE target("m25", << level, fallbackReason >>)

strictBudgetTarget(rd, features) ==
  LET categoryId == rd.categoryId
      complexity == rd.adjustedComplexity
      hasTools == features.hasToolsDeclared \/ features.toolMessages > 0
      toolMessages == features.toolMessages
      hasMultimodal == features.hasMultimodal
      approxTokens == features.approxTokens
      arch == hasArchitectureSignals(features.requestText)
      deep == hasDeepAnalysisSignals(features.requestText)
  IN  CASE complexity = "critical" ->
             LargeContextTarget("critical", categoryId, hasMultimodal, approxTokens, arch, deep,
                                "non-high-stakes requests are capped at M2.5")
        [] complexity = "complex" ->
             LargeContextTarget("complex", categoryId, hasMultimodal, approxTokens, arch, deep,
                                "non-high-stakes requests default to M2.5")
        [] complexity = "standard" ->
             IF hasMultimodal
               THEN target("kimiK25", << "standard multimodal requests default to multimodal specialist" >>)
             ELSE IF /\ hasTools
                     /\ categoryId \in {"core_loop", "orchestration"}
                     /\ approxTokens <= 3000
                     /\ toolMessages <= 2
               THEN target("grok", << "light tool-use for core loop/orchestration stays on budget model" >>)
             ELSE target("m25", << "standard non-multimodal requests default to M2.5" >>)
        [] OTHER ->
             IF categoryId = "heartbeat" THEN target("nano", << "heartbeat traffic pinned to nano" >>)
             ELSE IF categoryId = "retrieval" THEN target("nano", << "routine retrieval stays on nano" >>)
             ELSE IF categoryId = "summarization" THEN
               IF hasMultimodal
                 THEN target("kimiK25", << "routine multimodal summarization starts on multimodal specialist" >>)
               ELSE target("nano", << "routine summarization/extraction stays on nano" >>)
             ELSE IF categoryId = "coding" THEN
               IF hasTools THEN target("grok", << "routine tool-assisted coding starts on Grok" >>)
               ELSE target("dsCoder", << "routine coding starts on DeepSeek Coder" >>)
             ELSE target("grok", << "default strict budget model" >>)

\* the guardrail's steps after its three early returns, last to first; each
\* takes the decision next as the steps before it left it
guardrailGem31Pro(next, shortPrompt, hasTools, longContext, hasMultimodal) ==
  IF /\ cfg.COST_EFFICIENCY_MODE = "strict"
     /\ next.modelKey = "gem31Pro"
     /\ shortPrompt
     /\ ~hasTools
     /\ ~longContext
     /\ ~hasMultimodal
    THEN withRoutedModel(next, "grok", "BUDGET_GUARDRAIL",
           << "Cost guardrail: downgraded Gem31Pro for short conversational request." >>)
    ELSE next

shouldDowngradeSonnet(next, shortPrompt, hasTools, longContext, hasMultimodal) ==
  \/ next.adjustedComplexity = "simple"
  \/ next.adjustedComplexity = "standard"
  \/ /\ cfg.COST_EFFICIENCY_MODE = "strict"
     /\ next.adjustedComplexity # "critical"
     /\ shortPrompt
     /\ ~hasTools
     /\ ~longContext
     /\ ~hasMultimodal

guardrailSonnet(next, shortPrompt, hasTools, longContext, hasMultimodal) ==
  guardrailGem31Pro(
    IF /\ ~cfg.ALLOW_DIRECT_PREMIUM_MODELS
       /\ next.modelKey = "sonnet"
       /\ shouldDowngradeSonnet(next, shortPrompt, hasTools, longContext, hasMultimodal)
      THEN withRoutedModel(next, "grok", "BUDGET_GUARDRAIL",
             << "Cost guardrail: downgraded Sonnet for low-complexity request." >>)
      ELSE next,
    shortPrompt, hasTools, longContext, hasMultimodal)

\* variant: a direct opus route is not blocked
guardrailOpusKept(next, shortPrompt, hasTools, longContext, hasMultimodal) ==
  guardrailSonnet(next, shortPrompt, hasTools, longContext, hasMultimodal)

guardrailOpus(next, shortPrompt, hasTools, longContext, hasMultimodal) ==
  guardrailSonnet(
    IF ~cfg.ALLOW_DIRECT_PREMIUM_MODELS /\ next.modelKey = "opus"
      THEN withRoutedModel(next,
             IF next.adjustedComplexity = "critical"
               THEN valueTierModelForCategory(next.categoryId) ELSE "grok",
             "BUDGET_GUARDRAIL",
             << "Cost guardrail: blocked direct Opus route for non-high-stakes request." >>)
      ELSE next,
    shortPrompt, hasTools, longContext, hasMultimodal)

guardrailStrict(next, tgt, shortPrompt, hasTools, longContext, hasMultimodal) ==
  guardrailOpus(
    IF cfg.COST_EFFICIENCY_MODE = "strict" /\ tgt.modelKey # next.modelKey
      THEN withRoutedModel(next, tgt.modelKey, "BUDGET_GUARDRAIL",
             << "Cost guardrail strict:" >> \o tgt.reason)
      ELSE next,
    shortPrompt, hasTools, longContext, hasMultimodal)

guardrailTarget(next, requestText, features, shortPrompt, hasTools, longContext) ==
  guardrailStrict(
    next,
    strictBudgetTarget(next, [ hasToolsDeclared |-> features.hasToolsDeclared,
                               toolMessages |-> features.toolMessages,
                               hasMultimodal |-> features.hasMultimodal,
                               approxTokens |-> features.approxTokens,
                               requestText |-> requestText ]),
    shortPrompt, hasTools, longContext, features.hasMultimodal)

GuardrailRewrite(rd, msg, features) ==
  guardrailTarget(
    IF isOnboardingLikeRequest(msg.text)
       /\ ~(features.hasToolsDeclared \/ features.toolMessages > 0)
      THEN withRoutedModel(rd, "grok", "BUDGET_GUARDRAIL",
             << "Cost guardrail: onboarding/social setup forced to budget model." >>)
      ELSE rd,
    msg.text,
    features,
    msg.len > 0 /\ msg.len <= 240,
    features.hasToolsDeclared \/ features.toolMessages > 0,
    features.approxTokens >= 1800)

\* variant: the high_stakes decisions are not exempted
applyCostGuardrailsNoExemption(rd, classification, msg, features) ==
  IF Forced THEN rd
  ELSE IF cfg.COST_EFFICIENCY_MODE = "off" THEN rd
  ELSE GuardrailRewrite(rd, msg, features)

applyCostGuardrails(rd, classification, msg, features) ==
  IF Forced THEN rd
  ELSE IF cfg.COST_EFFICIENCY_MODE = "off" THEN rd
  ELSE IF rd.categoryId = "high_stakes" THEN rd
  ELSE GuardrailRewrite(rd, msg, features)

(***************************************************************************)
(* Self-check decision and escalation target.                              *)
(***************************************************************************)
\* variant: in strict mode a moderate score escalates critical work only
shouldEscalateFromSelfCheckCriticalOnly(score, rd) ==
  IF Forced \/ rd.label = "FORCED" THEN FALSE
  ELSE IF score >= 4 THEN FALSE
  ELSE IF score <= 1 THEN TRUE
  ELSE IF rd.categoryId = "high_stakes" THEN TRUE
  ELSE IF cfg.COST_EFFICIENCY_MODE = "strict"
    THEN rd.adjustedComplexity = "critical"
  ELSE TRUE

shouldEscalateFromSelfCheck(score, rd) ==
  IF Forced \/ rd.label = "FORCED" THEN FALSE
  ELSE IF score >= 4 THEN FALSE
  ELSE IF score <= 1 THEN TRUE
  ELSE IF rd.categoryId = "high_stakes" THEN TRUE
  ELSE IF cfg.COST_EFFICIENCY_MODE = "strict"
    THEN rd.adjustedComplexity \in {"critical", "complex"}
  ELSE TRUE

m25EscalationTarget(rd, features) ==
  IF features.hasMultimodal
    THEN (IF features.approxTokens >= 30000 THEN "gem31Pro" ELSE "kimiK25")
  ELSE IF rd.categoryId = "coding" /\ features.approxTokens >= 8000
          /\ hasArchitectureSignals(features.requestText) THEN "glm5"
  ELSE IF rd.categoryId \in {"research", "planning", "reflection"}
          /\ features.approxTokens >= 12000
          /\ hasDeepAnalysisSignals(features.requestText) THEN "glm5"
  ELSE "sonnet"

\* ESCALATION_PATH[modelKey] || fallback
LadderOr(modelKey, fallback) ==
  IF modelKey \in DOMAIN ESCALATION_PATH /\ ESCALATION_PATH[modelKey] # Null
    THEN ESCALATION_PATH[modelKey] ELSE fallback

buildEscalationTarget(modelKey, score, rd, features) ==
  IF Forced \/ rd.label = "FORCED" THEN Null
  ELSE IF score >= 4 THEN Null
  ELSE IF modelKey = "opus" THEN Null
  ELSE IF score <= 1 THEN
    IF /\ cfg.COST_EFFICIENCY_MODE = "strict"
       /\ rd.categoryId # "high_stakes"
       /\ rd.adjustedComplexity # "critical"
    THEN IF modelKey = Null THEN "m25"
         ELSE IF modelKey = "m25" THEN m25EscalationTarget(rd, features)
         ELSE LadderOr(modelKey, "m25")
    ELSE "opus"
  ELSE IF modelKey = Null THEN "opus"
  ELSE IF modelKey = "m25" THEN m25EscalationTarget(rd, features)
  ELSE LadderOr(modelKey, "opus")

(***************************************************************************)
(* Heuristic classification.                                               *)
(***************************************************************************)
NonHighStakesCategories == FilterSeq(CATEGORY_IDS, Range(CATEGORY_IDS) \ {"high_stakes"})

categoryScore(text, categoryId) == Len(collectMatchedSignals(text, classifierSignals[categoryId]))

betterOf(best, id, score) == IF score > best.score THEN [ id |-> id, score |-> score ] ELSE best

\* scores[0] after the stable sort by descending score: the first category,
\* in declaration order, that has the highest score
RECURSIVE topScored(_, _, _)
topScored(text, ids, best) ==
  IF ids = <<>> THEN best
  ELSE topScored(text, Tail(ids), betterOf(best, Head(ids), categoryScore(text, Head(ids))))

scoreCategoriesWithSignals(text) ==
  topScored(text, Tail(NonHighStakesCategories),
            [ id |-> Head(NonHighStakesCategories),
              score |-> categoryScore(text, Head(NonHighStakesCategories)) ])

heuristicCategoryFallback(text, features) ==
  LET hasTools == features.hasToolsDeclared \/ features.toolMessages > 0
  IN  CASE hasTools -> "core_loop"
        [] MatchesAny(text, { <<"code">>, <<"debug">>, <<"refactor">>, <<"test">>, <<"function">>,
                              <<"script">>, <<"stack", "trace">>, <<"exception">> }) -> "coding"
        [] MatchesAny(text, { <<"summarize">>, <<"summary">>, <<"extract">>, <<"action", "items">>,
                              <<"digest">>, <<"invoice">>, <<"receipt">> }) -> "summarization"
        [] MatchesAny(text, { <<"plan">>, <<"roadmap">>, <<"schedule">>, <<"itinerary">>, <<"steps">>,
                              <<"break", "down">> }) -> "planning"
        [] MatchesAny(text, { <<"web">>, <<"search">>, <<"lookup">>, <<"find">>, <<"calendar">>,
                              <<"email">>, <<"weather">>, <<"stock">> }) -> "retrieval"
        [] MatchesAny(text, { <<"research">>, <<"analysis">>, <<"compare">>, <<"literature">>,
                              <<"report">>, <<"due", "diligence">> }) -> "research"
        [] MatchesAny(text, { <<"creative">>, <<"story">>, <<"poem">>, <<"brainstorm">>,
                              <<"copywriting">>, <<"campaign">> }) -> "creative"
        [] MatchesAny(text, { <<"reply">>, <<"message">>, <<"chat">>, <<"customer", "support">>,
                              <<"email", "response">>, <<"negotiat">> }) -> "communication"
        [] MatchesAny(text, { <<"browser">>, <<"automation">>, <<"shell">>, <<"git">>, <<"workflow">>,
                              <<"pipeline">>, <<"checkout">> }) -> "orchestration"
        [] MatchesAny(text, { <<"reflect">>, <<"stuck">>, <<"loop">>, <<"failure", "analysis">>,
                              <<"improve">> }) -> "reflection"
        [] MatchesAny(text, { <<"heartbeat">>, <<"ping">>, <<"status">>, <<"health", "check">> })
             -> "heartbeat"
        [] OTHER -> "communication"

heuristicComplexity(msg, features, categoryId, gate) ==
  LET normalized == msg.text
      hasTools == features.hasToolsDeclared \/ features.toolMessages > 0
      shortPrompt == msg.len > 0 /\ msg.len <= 240
  IN  CASE categoryId = "high_stakes" -> "critical"
        [] gate.actionLike -> "critical"
        [] shortPrompt /\ ~hasTools /\ isOnboardingLikeRequest(normalized) -> "simple"
        [] shortPrompt /\ ~hasTools /\ categoryId \in {"communication", "creative", "heartbeat"}
             -> "simple"
        [] features.approxTokens >= 12000 \/ features.messageCount >= 24 -> "critical"
        [] features.approxTokens >= 4500 \/ features.messageCount >= 14 -> "complex"
        [] features.hasMultimodal /\ features.approxTokens >= 1200 -> "complex"
        [] MatchesAny(normalized, { <<"production", "outage">>, <<"incident">>, <<"root", "cause">>,
                                    <<"irreversible">>, <<"mission", "critical">>, <<"compliance">> })
             -> "critical"
        [] /\ MatchesAny(normalized, { <<"legal">>, <<"contract">> })
           /\ MatchesAny(normalized, { <<"sign">>, <<"approve">>, <<"execute">>, <<"submit">>,
                                       <<"file">>, <<"binding">>, <<"finalize">>, <<"enforce">> })
             -> "critical"
        [] MatchesAny(normalized, { <<"multi", "constraint">>, <<"algorithm">>, <<"architecture">>,
                                    <<"deep", "dive">>, <<"synthesize">> }) -> "complex"
        [] features.approxTokens <= 280 /\ ~features.hasMultimodal /\ ~features.hasToolsDeclared
             -> "simple"
        [] OTHER -> "standard"

\* text and len are those of `${lastUserMessage}\n${recentContext}`
heuristicFor(msg, features, gate, top, categoryId) ==
  [ categoryId |-> categoryId,
    complexity |-> heuristicComplexity(msg, features, categoryId, gate),
    confidence |-> IF top.score > 0 THEN Min2(5, 2 + top.score) ELSE 2,
    highStakes |-> FALSE,
    source |-> "heuristic" ]

heuristicFrom(msg, features, gate, top) ==
  heuristicFor(msg, features, gate, top,
               IF top.score > 0 THEN top.id ELSE heuristicCategoryFallback(msg.text, features))

heuristicClassification(msg, features, gate) ==
  IF gate.triggered THEN
    [ categoryId |-> "high_stakes", complexity |-> "critical", confidence |-> 5,
      highStakes |-> TRUE, source |-> "safety_gate" ]
  ELSE heuristicFrom(msg, features, gate, scoreCategoriesWithSignals(msg.text))

(***************************************************************************)
(* Judge output parsing.  A judge reply is a record: kind "json" (the      *)
(* content parses to an object with the given fields), "loose" (no object, *)
(* but the loose scan finds the given tokens) or "garbage".                *)
(***************************************************************************)
\* a raw number is [finite, n]: Number(value) is the integer n, or is not
\* finite (NaN, undefined, a non-numeric string)
NaN == [ finite |-> FALSE, n |-> 0 ]

Num(n) == [ finite |-> TRUE, n |-> n ]

parseScore(value, fallback) ==
  IF ~value.finite THEN fallback ELSE Max2(1, Min2(5, value.n))

NotParsed ==
  [ ok |-> FALSE, categoryId |-> Null, complexity |-> Null, confidence |-> 0, highStakes |-> FALSE ]

parseClassifierOutput(raw) ==
  LET jsonOk == /\ raw.kind = "json"
                /\ normalizeCategoryId(raw.category) # Null
                /\ normalizeComplexity(raw.complexity) # Null
      looseOk == /\ raw.kind \in {"json", "loose"}
                 /\ normalizeCategoryId(raw.category) # Null
                 /\ raw.complexity \in Range(COMPLEXITY_ORDER)
  IN  IF jsonOk THEN
        [ ok |-> TRUE,
          categoryId |-> normalizeCategoryId(raw.category),
          complexity |-> normalizeComplexity(raw.complexity),
          confidence |-> parseScore(raw.confidence, 3),
          highStakes |-> raw.high_stakes ]
      ELSE IF looseOk THEN
        [ ok |-> TRUE,
          categoryId |-> normalizeCategoryId(raw.category),
          complexity |-> raw.complexity,
          confidence |-> 3,
          highStakes |-> raw.category = "high_stakes" ]
      ELSE NotParsed

parseSelfCheckOutput(raw) ==
  CASE raw.kind = "json" -> [ score |-> parseScore(raw.score, 4) ]
    [] raw.kind = "loose" -> [ score |-> parseScore(raw.score, 4) ]
    [] OTHER -> [ score |-> 4 ]

(***************************************************************************)
(* Fallback executor.                                                      *)
(***************************************************************************)
RetryableStatuses == {429, 502, 503, 504}

\* variant: every server-side failure is retried, 404 is not
isRetryableModelErrorServerSide(error) ==
  \/ error.status >= 500
  \/ error.status = 429
  \/ error.status = 400 /\ error.unavailable

\* error: [status, unavailable]; unavailable says that the message matches
\* /(model|provider|unavailable|not found|capacity|unsupported)/
isRetryableModelError(error) ==
  \/ error.status \in RetryableStatuses
  \/ error.status = 404
  \/ error.status = 400 /\ error.unavailable

RECURSIVE candidatesFrom(_, _)
candidatesFrom(keys, seen) ==
  IF keys = <<>> THEN <<>>
  ELSE IF Head(keys) = "" \/ Head(keys) \in seen \/ modelIdForKey(Head(keys)) = Null
    THEN candidatesFrom(Tail(keys), seen)
  ELSE << [ modelKey |-> Head(keys), modelId |-> modelIdForKey(Head(keys)) ] >>
         \o candidatesFrom(Tail(keys), seen \cup {Head(keys)})

buildCandidatesFromKeys(keys) == candidatesFrom(keys, {})

fallbacksOf(modelKey) ==
  IF modelKey \in DOMAIN MODEL_FALLBACKS THEN MODEL_FALLBACKS[modelKey] ELSE <<>>

\* variant: a forced route gets a fallback candidate behind the forced model
buildCandidatesForRouteWithSpare(rd, features) ==
  IF rd.modelId # Null /\ rd.modelKey = Null
    THEN << [ modelKey |-> Null, modelId |-> rd.modelId ] >> \o buildCandidatesFromKeys(<< "grok" >>)
  ELSE IF rd.modelKey = Null THEN <<>>
  ELSE IF features.hasMultimodal
    THEN buildCandidatesFromKeys(
           FilterSeq(dedupe(<< rd.modelKey >> \o MULTIMODAL_FALLBACK_KEYS),
                     Range(MULTIMODAL_FALLBACK_KEYS)))
  ELSE buildCandidatesFromKeys(<< rd.modelKey >> \o fallbacksOf(rd.modelKey))

\* variant: the route key, followed by the fallback keys, each taken as it
\* comes
buildCandidatesForRouteUnfiltered(rd, features) ==
  IF rd.modelId # Null /\ rd.modelKey = Null
    THEN << [ modelKey |-> Null, modelId |-> rd.modelId ] >>
  ELSE IF rd.modelKey = Null THEN <<>>
  ELSE LET keys == << rd.modelKey >> \o
                     (IF features.hasMultimodal THEN MULTIMODAL_FALLBACK_KEYS
                      ELSE fallbacksOf(rd.modelKey))
       IN  [ i \in 1..Len(keys) |-> [ modelKey |-> keys[i], modelId |-> modelIdForKey(keys[i]) ] ]

\* rd: a record with at least modelKey and modelId
buildCandidatesForRoute(rd, features) ==
  IF rd.modelId # Null /\ rd.modelKey = Null
    THEN << [ modelKey |-> Null, modelId |-> rd.modelId ] >>
  ELSE IF rd.modelKey = Null THEN <<>>
  ELSE IF features.hasMultimodal
    THEN buildCandidatesFromKeys(
           FilterSeq(dedupe(<< rd.modelKey >> \o MULTIMODAL_FALLBACK_KEYS),
                     Range(MULTIMODAL_FALLBACK_KEYS)))
  ELSE buildCandidatesFromKeys(<< rd.modelKey >> \o fallbacksOf(rd.modelKey))

\* the candidates of classifyRequest and of runSelfCheck
judgeCandidates(judgeKey) ==
  buildCandidatesFromKeys(<< judgeKey, "nano", "gemFlash", "grok", "m25", "kimiK25", "glm5" >>)

(***************************************************************************)
(* callWithModelCandidates: the candidate loop.  A chain is the loop's     *)
(* state: its purpose, the candidates, the index i of the candidate being  *)
(* awaited (1-based) and the models attempted so far.                      *)
(***************************************************************************)
NoChain == [ purpose |-> "none", candidates |-> <<>>, i |-> 0, attempted |-> <<>> ]

newChain(purpose, candidates) ==
  [ purpose |-> purpose, candidates |-> candidates, i |-> 1, attempted |-> <<>> ]

\* variant: the remaining candidates are called at once
awaitedCallsFannedOut(ch) == ch.i .. Len(ch.candidates)

\* the upstream calls awaited while the loop is at index i: the loop awaits
\* one call per iteration
awaitedCalls(ch) == { ch.i }

\* the catch block of the loop: the error is thrown to the caller, or the
\* loop moves to the next candidate
chainThrows(ch, error) == ~isRetryableModelError(error) \/ ch.i = Len(ch.candidates)

chainAfterFailure(ch) ==
  [ ch EXCEPT !.i = ch.i + 1,
              !.attempted = Append(ch.attempted, ch.candidates[ch.i].modelId) ]

\* the error thrown for an empty candidate list
NoCandidatesError == [ status |-> 500, unavailable |-> FALSE, code |-> "routing_no_candidates" ]

(***************************************************************************)
(* What the upstream can answer.                                           *)
(***************************************************************************)
ErrorStatuses == {302, 400, 401, 404, 429, 500, 502, 503, 504}

UpstreamErrors ==
  { [ status |-> st, unavailable |-> u, code |-> "upstream" ] :
      st \in ErrorStatuses, u \in BOOLEAN } \
  { e \in [ status : ErrorStatuses, unavailable : {TRUE}, code : {"upstream"} ] : e.status # 400 }

\* a 2xx completion body: with a choices array or without
CompletionBodies == { [ wellFormed |-> w ] : w \in BOOLEAN }

ClassifierReplies ==
  { [ kind |-> "json", category |-> "coding", complexity |-> "hard", confidence |-> Num(4),
      high_stakes |-> FALSE ],
    [ kind |-> "json", category |-> "summarization", complexity |-> "critical", confidence |-> NaN,
      high_stakes |-> FALSE ],
    [ kind |-> "json", category |-> "communication", complexity |-> "standard", confidence |-> Num(9),
      high_stakes |-> TRUE ],
    [ kind |-> "json", category |-> "small_talk", complexity |-> "simple", confidence |-> Num(5),
      high_stakes |-> FALSE ],
    [ kind |-> "loose", category |-> "heartbeat", complexity |-> "simple", confidence |-> NaN,
      high_stakes |-> FALSE ],
    [ kind |-> "garbage", category |-> "", complexity |-> "", confidence |-> NaN,
      high_stakes |-> FALSE ] }

SelfCheckReplies ==
  { [ kind |-> "json", score |-> Num(n) ] : n \in 0..6 } \cup
  { [ kind |-> "json", score |-> NaN ] } \cup
  { [ kind |-> "loose", score |-> Num(n) ] : n \in 1..5 } \cup
  { [ kind |-> "garbage", score |-> NaN ] }

(***************************************************************************)
(* The handler of POST /v1/chat/completions.                               *)
(*   pc               where the handler is: "start", awaiting an upstream  *)
(*                    call ("classifier", "primary", "selfcheck",          *)
(*                    "escalation"), relaying a stream ("streaming") or    *)
(*                    "done"                                               *)
(*   safetyGate, classifierResult, routeDecision                           *)
(*                    the handler's locals; resolved is routeDecision      *)
(*                    before the cost guardrail                            *)
(*   chain, inFlight  the candidate loop in progress and the calls awaited *)
(*   upstreamCalls    the purposes for which an upstream call was issued   *)
(*   escalationCalls  how many escalation re-calls were issued             *)
(*   selfCheckRuns    how many times runSelfCheck was entered              *)
(*   result           initialModelId, finalModelId, finalModelKey,         *)
(*                    escalated, lowConfidence, confidenceScore (0: null), *)
(*                    finalResponse, and primaryCall.usedFallback          *)
(*   res              the HTTP response                                    *)
(*   failures         how many upstream calls of the request have failed   *)
(***************************************************************************)
DefaultRouteDecision ==
  [ categoryId |-> "core_loop", complexity |-> "standard", adjustedComplexity |-> "standard",
    modelKey |-> "sonnet", modelId |-> modelIdForKey("sonnet"), label |-> "DEFAULT",
    rule |-> << << "Default fallback" >> >>, injectionRisk |-> "HIGH",
    safetyGateTriggered |-> FALSE ]

NoGate == [ triggered |-> FALSE, matchedSignals |-> <<>>, actionLike |-> FALSE ]

NoClassification ==
  [ categoryId |-> Null, complexity |-> Null, confidence |-> 0, highStakes |-> FALSE,
    source |-> "none" ]

NoBody == [ wellFormed |-> FALSE, by |-> Null ]

NoResult ==
  [ initialModelId |-> Null, finalModelId |-> Null, finalModelKey |-> Null, escalated |-> FALSE,
    lowConfidence |-> FALSE, confidenceScore |-> 0, finalResponse |-> NoBody,
    usedFallback |-> FALSE ]

NoHeaders ==
  [ set |-> FALSE, category |-> Null, initialModel |-> Null, finalModel |-> Null,
    routeLabel |-> Null, escalated |-> FALSE, confidenceScore |-> 0, lowConfidence |-> FALSE,
    safetyGate |-> FALSE ]

NoResponse ==
  [ status |-> 0, kind |-> "none", code |-> Null, headers |-> NoHeaders, body |-> NoBody,
    headersSent |-> FALSE, chunks |-> 0, ended |-> FALSE ]

\* variant: the initial-model header names the routed model
setRoutingHeadersRouted(r, rd, locals, escalated, confidenceScore, lowConfidence) ==
  [ r EXCEPT !.headers =
      [ set |-> TRUE, category |-> rd.categoryId, initialModel |-> rd.modelId,
        finalModel |-> locals.finalModelId, routeLabel |-> rd.label, escalated |-> escalated,
        confidenceScore |-> confidenceScore, lowConfidence |-> lowConfidence,
        safetyGate |-> rd.safetyGateTriggered ] ]

\* setRoutingHeaders(res, metadata)
setRoutingHeaders(r, rd, locals, escalated, confidenceScore, lowConfidence) ==
  [ r EXCEPT !.headers =
      [ set |-> TRUE, category |-> rd.categoryId, initialModel |-> locals.initialModelId,
        finalModel |-> locals.finalModelId, routeLabel |-> rd.label, escalated |-> escalated,
        confidenceScore |-> confidenceScore, lowConfidence |-> lowConfidence,
        safetyGate |-> rd.safetyGateTriggered ] ]

\* the status the catch block answers with
catchStatus(error) == IF error.status >= 400 /\ error.status <= 599 THEN error.status ELSE 500

\* the message of the last user message and of the classification text
lastUserMessage(r) == [ text |-> r.text, len |-> r.promptLen ]

classificationText(r) == [ text |-> safetyTextOf(r), len |-> classificationTextLen(r) ]

requestFeatures(r) ==
  LET f == extractConversationFeatures(r)
  IN  [ messageCount |-> f.messageCount, toolMessages |-> f.toolMessages,
        hasMultimodal |-> f.hasMultimodal, hasToolsDeclared |-> f.hasToolsDeclared,
        approxTokens |-> f.approxTokens, requestText |-> r.text ]

\* variant: streaming only when asked for
streamRequestedExplicitly(r) == r.stream = "true"

\* body.stream !== false; body.stream is "true", "false" or "absent"
streamRequested(r) == r.stream # "false"

\* variant: the confirmation is never asked for
confirmationRequiredNever(gate, r) == FALSE

confirmationRequired(gate, r) ==
  gate.triggered /\ cfg.HIGH_STAKES_CONFIRM_MODE = "strict" /\ ~isHighStakesConfirmed(r)

(***************************************************************************)
(* classifyRequest, in three parts: what it returns before any call, what  *)
(* it returns from a judge reply and what it returns when the judge chain  *)
(* throws.                                                                 *)
(***************************************************************************)
\* variant: a triggered gate does not bypass the judge
classifyRequestSyncJudged(msg, features, gate) ==
  IF Forced
    THEN [ returned |-> TRUE,
           classification |-> [ heuristicClassification(msg, features, gate)
                                  EXCEPT !.source = "forced_model" ] ]
  ELSE [ returned |-> FALSE, classification |-> heuristicClassification(msg, features, gate) ]

classifyRequestSync(msg, features, gate) ==
  LET heuristic == heuristicClassification(msg, features, gate)
  IN  IF gate.triggered THEN [ returned |-> TRUE, classification |-> heuristic ]
      ELSE IF Forced
        THEN [ returned |-> TRUE, classification |-> [ heuristic EXCEPT !.source = "forced_model" ] ]
      ELSE [ returned |-> FALSE, classification |-> heuristic ]

classifyRequestOnReply(heuristic, reply) ==
  LET parsed == parseClassifierOutput(reply)
  IN  IF ~parsed.ok THEN [ heuristic EXCEPT !.source = "heuristic_fallback" ]
      ELSE [ categoryId |-> IF parsed.highStakes THEN "high_stakes" ELSE parsed.categoryId,
             complexity |-> IF parsed.highStakes THEN "critical" ELSE parsed.complexity,
             confidence |-> parsed.confidence,
             highStakes |-> parsed.highStakes,
             source |-> "model" ]

classifyRequestOnError(heuristic) == [ heuristic EXCEPT !.source = "heuristic_on_classifier_error" ]

(***************************************************************************)
(* The escalation decision taken after the first self-check: the key to    *)
(* escalate to, or Null.                                                   *)
(***************************************************************************)
\* variant: a FLOOR route is escalated like any other route
escalationTargetForLadderOnly(score, rd, finalModelKey, features) ==
  LET t0 == IF shouldEscalateFromSelfCheck(score, rd)
              THEN buildEscalationTarget(finalModelKey, score, rd, features)
              ELSE Null
  IN  IF t0 # Null /\ modelIdForKey(t0) # Null /\ finalModelKey # t0 THEN t0 ELSE Null

escalationTargetFor(score, rd, finalModelKey, features) ==
  LET t0 == IF shouldEscalateFromSelfCheck(score, rd)
              THEN buildEscalationTarget(finalModelKey, score, rd, features)
              ELSE Null
      t1 == IF rd.categoryId = "high_stakes" /\ rd.label = "FLOOR" /\ score < 5
              THEN "opus" ELSE t0
  IN  IF t1 # Null /\ modelIdForKey(t1) # Null /\ finalModelKey # t1 THEN t1 ELSE Null

lowConfidenceFor(score, rd) ==
  score <= 3 \/ (rd.categoryId = "high_stakes" /\ score < 4)

(***************************************************************************)
(* Steps shared by the handler's actions.                                  *)
(***************************************************************************)
\* variant: the answer already obtained is returned when a later call fails
CatchReturningAnswer(error) ==
  /\ res' = IF result.finalResponse # NoBody
              THEN [ res EXCEPT !.status = 200, !.kind = "json", !.body = result.finalResponse ]
              ELSE [ res EXCEPT !.status = catchStatus(error), !.kind = "error",
                                !.code = error.code ]
  /\ pc' = "done"
  /\ inFlight' = {}

Catch(error) ==
  /\ res' = [ res EXCEPT !.status = catchStatus(error), !.kind = "error", !.code = error.code ]
  /\ pc' = "done"
  /\ inFlight' = {}

StartChain(purpose, candidates) ==
  /\ chain' = newChain(purpose, candidates)
  /\ inFlight' = awaitedCalls(newChain(purpose, candidates))
  /\ upstreamCalls' = upstreamCalls \cup { purpose }
  /\ pc' = purpose

ContinueChain ==
  /\ chain' = chainAfterFailure(chain)
  /\ inFlight' = awaitedCalls(chainAfterFailure(chain))

\* callWithModelCandidates is entered by the handler: the empty list throws
callWithModelCandidates(purpose, candidates) ==
  IF candidates = <<>>
    THEN Catch(NoCandidatesError) /\ UNCHANGED << chain, upstreamCalls >>
    ELSE StartChain(purpose, candidates) /\ UNCHANGED res

\* resolve, guard and issue the primary call
RouteAndCall(cls, gate) ==
  \E rd0 \in { resolveRouteDecision(cls, gate) } :
    \E rd \in { applyCostGuardrails(rd0, cls, lastUserMessage(req), requestFeatures(req)) } :
      /\ classifierResult' = cls
      /\ resolved' = rd0
      /\ routeDecision' = rd
      /\ callWithModelCandidates("primary", buildCandidatesForRoute(rd, requestFeatures(req)))
      /\ UNCHANGED << escalationCalls, selfCheckRuns, result >>

\* runSelfCheck is entered
StartSelfCheck ==
  /\ selfCheckRuns' = selfCheckRuns + 1
  /\ StartChain("selfcheck", judgeCandidates(cfg.SELF_CHECK_MODEL_KEY))

\* variant: the final body is returned as it came
FinishUnchecked(locals) ==
  /\ res' = [ setRoutingHeaders(res, routeDecision, locals, locals.escalated,
                                locals.confidenceScore, locals.lowConfidence)
                EXCEPT !.status = 200, !.kind = "json", !.body = locals.finalResponse ]
  /\ pc' = "done"
  /\ inFlight' = {}

\* the malformed check, the routing headers and the 200 response
Finish(locals) ==
  IF ~locals.finalResponse.wellFormed
    THEN Catch([ status |-> 502, unavailable |-> FALSE, code |-> Null ])
    ELSE /\ res' = [ setRoutingHeaders(res, routeDecision, locals, locals.escalated,
                                       locals.confidenceScore, locals.lowConfidence)
                       EXCEPT !.status = 200, !.kind = "json", !.body = locals.finalResponse ]
         /\ pc' = "done"
         /\ inFlight' = {}

(***************************************************************************)
(* Actions.                                                                *)
(***************************************************************************)
HandleRequest ==
  /\ pc = "start"
  /\ \E gate \in { detectSafetyGate(safetyTextOf(req)) } :
       /\ safetyGate' = gate
       /\ IF confirmationRequired(gate, req)
            THEN /\ res' = [ res EXCEPT !.status = 409, !.kind = "error",
                                        !.code = "high_stakes_confirmation_required" ]
                 /\ pc' = "done"
                 /\ UNCHANGED << classifierResult, resolved, routeDecision, chain, inFlight,
                                 upstreamCalls, escalationCalls, selfCheckRuns, result >>
            ELSE \E sync \in { classifyRequestSync(classificationText(req),
                                                   requestFeatures(req), gate) } :
                   IF sync.returned THEN RouteAndCall(sync.classification, gate)
                   ELSE /\ StartChain("classifier", judgeCandidates(cfg.CLASSIFIER_MODEL_KEY))
                        /\ UNCHANGED << classifierResult, resolved, routeDecision,
                                        escalationCalls, selfCheckRuns, result, res >>
  /\ UNCHANGED << cfg, req, probe, failures >>

ClassifierReply ==
  /\ pc = "classifier"
  /\ inFlight # {}
  /\ \E reply \in ClassifierReplies :
       RouteAndCall(
         classifyRequestOnReply(
           classifyRequestSync(classificationText(req), requestFeatures(req), safetyGate).classification,
           reply),
         safetyGate)
  /\ UNCHANGED << cfg, req, probe, failures, safetyGate >>

\* variant: an error thrown by the classifier chain reaches the catch block
\* of the handler
ClassifierErrorFatal ==
  /\ pc = "classifier"
  /\ inFlight # {}
  /\ failures < MaxFailures
  /\ failures' = failures + 1
  /\ \E error \in UpstreamErrors :
       IF chainThrows(chain, error)
         THEN Catch(error) /\ UNCHANGED chain
         ELSE ContinueChain /\ UNCHANGED << pc, res >>
  /\ UNCHANGED << cfg, req, probe, safetyGate, classifierResult, resolved, routeDecision,
                  upstreamCalls, escalationCalls, selfCheckRuns, result >>

ClassifierError ==
  /\ pc = "classifier"
  /\ inFlight # {}
  /\ failures < MaxFailures
  /\ failures' = failures + 1
  /\ \E error \in UpstreamErrors :
       IF chainThrows(chain, error)
         THEN RouteAndCall(
                classifyRequestOnError(
                  classifyRequestSync(classificationText(req), requestFeatures(req), safetyGate).classification),
                safetyGate)
         ELSE /\ ContinueChain
              /\ UNCHANGED << pc, classifierResult, resolved, routeDecision, upstreamCalls,
                              escalationCalls, selfCheckRuns, result, res >>
  /\ UNCHANGED << cfg, req, probe, safetyGate >>

\* the primary call returned a 2xx response
PrimaryOk ==
  /\ pc = "primary"
  /\ inFlight # {}
  /\ LET c == chain.candidates[chain.i]
         locals(body) ==
           [ NoResult EXCEPT !.initialModelId = c.modelId, !.finalModelId = c.modelId,
                             !.finalModelKey = c.modelKey, !.usedFallback = chain.i > 1,
                             !.finalResponse = [ wellFormed |-> body.wellFormed, by |-> c.modelId ] ]
     IN  IF streamRequested(req) THEN
           /\ result' = [ NoResult EXCEPT !.initialModelId = c.modelId, !.finalModelId = c.modelId,
                                          !.finalModelKey = c.modelKey,
                                          !.usedFallback = chain.i > 1 ]
           /\ res' = [ setRoutingHeaders(res, routeDecision, result', FALSE, 0, FALSE)
                         EXCEPT !.status = 200, !.kind = "stream", !.headersSent = TRUE ]
           /\ pc' = "streaming"
           /\ inFlight' = {}
           /\ UNCHANGED << chain, upstreamCalls, selfCheckRuns >>
         ELSE \E body \in CompletionBodies :
           /\ result' = locals(body)
           /\ IF routeDecision.label = "FORCED"
                THEN /\ Finish(locals(body))
                     /\ UNCHANGED << chain, upstreamCalls, selfCheckRuns >>
                ELSE StartSelfCheck /\ UNCHANGED res
  /\ UNCHANGED << cfg, req, probe, failures, safetyGate, classifierResult, resolved, routeDecision,
                  escalationCalls >>

\* a call of a user-facing chain (primary or escalation) failed
CallError ==
  /\ pc \in {"primary", "escalation"}
  /\ inFlight # {}
  /\ failures < MaxFailures
  /\ failures' = failures + 1
  /\ \E error \in UpstreamErrors :
       IF chainThrows(chain, error)
         THEN Catch(error) /\ UNCHANGED chain
         ELSE ContinueChain /\ UNCHANGED << pc, res >>
  /\ UNCHANGED << cfg, req, probe, safetyGate, classifierResult, resolved, routeDecision,
                  upstreamCalls, escalationCalls, selfCheckRuns, result >>

\* what follows the first self-check: the escalation re-call, or the answer
AfterFirstSelfCheck(score) ==
  LET features == requestFeatures(req)
      tgt == escalationTargetFor(score, routeDecision, result.finalModelKey, features)
      scored == [ result EXCEPT !.confidenceScore = score ]
  IN  IF tgt # Null
        THEN /\ result' = [ scored EXCEPT !.escalated = TRUE ]
             /\ escalationCalls' = escalationCalls + 1
             /\ callWithModelCandidates("escalation",
                  buildCandidatesForRoute([ categoryId |-> routeDecision.categoryId,
                                            modelKey |-> tgt, modelId |-> modelIdForKey(tgt) ],
                                          features))
        ELSE /\ result' = [ scored EXCEPT !.lowConfidence = lowConfidenceFor(score, routeDecision) ]
             /\ Finish(result')
             /\ UNCHANGED << chain, upstreamCalls, escalationCalls >>

\* variant: the second self-check is followed by the escalation decision too
AfterSecondSelfCheckEscalating(score) == AfterFirstSelfCheck(score)

\* what follows the second self-check: the answer
AfterSecondSelfCheck(score) ==
  /\ result' = [ result EXCEPT !.confidenceScore = score,
                               !.lowConfidence = lowConfidenceFor(score, routeDecision) ]
  /\ Finish(result')
  /\ UNCHANGED << chain, upstreamCalls, escalationCalls >>

AfterSelfCheck(score) ==
  IF result.escalated THEN AfterSecondSelfCheck(score) ELSE AfterFirstSelfCheck(score)

SelfCheckReply ==
  /\ pc = "selfcheck"
  /\ inFlight # {}
  /\ \E reply \in SelfCheckReplies : AfterSelfCheck(parseSelfCheckOutput(reply).score)
  /\ UNCHANGED << cfg, req, probe, failures, safetyGate, classifierResult, resolved, routeDecision,
                  selfCheckRuns >>

\* variant: a judge that cannot be reached counts as a failed answer
selfCheckOnErrorFailing == [ score |-> 1 ]

\* what runSelfCheck returns when the judge chain throws
selfCheckOnError == [ score |-> 4 ]

SelfCheckError ==
  /\ pc = "selfcheck"
  /\ inFlight # {}
  /\ failures < MaxFailures
  /\ failures' = failures + 1
  /\ \E error \in UpstreamErrors :
       IF chainThrows(chain, error)
         THEN AfterSelfCheck(selfCheckOnError.score)
         ELSE ContinueChain /\ UNCHANGED << pc, upstreamCalls, escalationCalls, result, res >>
  /\ UNCHANGED << cfg, req, probe, safetyGate, classifierResult, resolved, routeDecision,
                  selfCheckRuns >>

\* the escalation re-call returned a 2xx response
EscalationOk ==
  /\ pc = "escalation"
  /\ inFlight # {}
  /\ \E body \in CompletionBodies :
       LET c == chain.candidates[chain.i]
       IN  result' = [ result EXCEPT !.finalModelId = c.modelId, !.finalModelKey = c.modelKey,
                                     !.finalResponse = [ wellFormed |-> body.wellFormed,
                                                         by |-> c.modelId ] ]
  /\ StartSelfCheck
  /\ UNCHANGED << cfg, req, probe, failures, safetyGate, classifierResult, resolved, routeDecision,
                  escalationCalls, res >>

\* the streaming relay
StreamData ==
  /\ pc = "streaming"
  /\ res.chunks < MaxChunks
  /\ res' = [ res EXCEPT !.chunks = res.chunks + 1 ]
  /\ UNCHANGED << cfg, req, probe, failures, pc, safetyGate, classifierResult, resolved, routeDecision,
                  chain, inFlight, upstreamCalls, escalationCalls, selfCheckRuns, result >>

StreamEnd ==
  /\ pc = "streaming"
  /\ res' = [ res EXCEPT !.ended = TRUE ]
  /\ pc' = "done"
  /\ UNCHANGED << cfg, req, probe, failures, safetyGate, classifierResult, resolved, routeDecision,
                  chain, inFlight, upstreamCalls, escalationCalls, selfCheckRuns, result >>

\* variant: the stream error handler writes the JSON error whatever was sent
StreamErrorAlwaysJson ==
  /\ pc = "streaming"
  /\ res' = [ res EXCEPT !.status = 502, !.kind = "error", !.code = Null ]
  /\ pc' = "done"
  /\ UNCHANGED << cfg, req, probe, failures, safetyGate, classifierResult, resolved, routeDecision,
                  chain, inFlight, upstreamCalls, escalationCalls, selfCheckRuns, result >>

StreamError ==
  /\ pc = "streaming"
  /\ res' = IF ~res.headersSent
              THEN [ res EXCEPT !.status = 502, !.kind = "error", !.code = Null ]
              ELSE [ res EXCEPT !.ended = TRUE ]
  /\ pc' = "done"
  /\ UNCHANGED << cfg, req, probe, failures, safetyGate, classifierResult, resolved, routeDecision,
                  chain, inFlight, upstreamCalls, escalationCalls, selfCheckRuns, result >>

ClientClose ==
  /\ pc = "streaming"
  /\ pc' = "done"
  /\ UNCHANGED << cfg, req, probe, failures, res, safetyGate, classifierResult, resolved, routeDecision,
                  chain, inFlight, upstreamCalls, escalationCalls, selfCheckRuns, result >>

(***************************************************************************)
(* Inputs.                                                                 *)
(***************************************************************************)
ConfigDefault ==
  [ ROUTING_PROFILE |-> "budget", COST_EFFICIENCY_MODE |-> "strict",
    ALLOW_DIRECT_PREMIUM_MODELS |-> FALSE, ENABLE_SAFETY_GATE |-> TRUE,
    HIGH_STAKES_CONFIRM_MODE |-> "prompt", ALLOW_HIGH_STAKES_BUDGET_FLOOR |-> FALSE,
    FORCE_MODEL_ID |-> "", confirmTokenEnv |-> <<>>,
    CLASSIFIER_MODEL_KEY |-> "nano", SELF_CHECK_MODEL_KEY |-> "nano" ]

AllConfigs ==
  [ ROUTING_PROFILE : {"budget", "balanced", "quality"},
    COST_EFFICIENCY_MODE : {"strict", "balanced", "off"},
    ALLOW_DIRECT_PREMIUM_MODELS : BOOLEAN,
    ENABLE_SAFETY_GATE : BOOLEAN,
    HIGH_STAKES_CONFIRM_MODE : {"prompt", "strict", "off"},
    ALLOW_HIGH_STAKES_BUDGET_FLOOR : BOOLEAN,
    FORCE_MODEL_ID : {"", "vendor/custom-model"},
    confirmTokenEnv : { <<>>, << "O", "k", " " >> },
    CLASSIFIER_MODEL_KEY : {"nano"},
    SELF_CHECK_MODEL_KEY : {"nano"} ]

NonDefault(c) == Cardinality({ f \in DOMAIN c : c[f] # ConfigDefault[f] })

\* the settings are varied MaxNonDefault at a time; the confirmation token is
\* a setting of the strict confirmation mode
Configs ==
  { c \in AllConfigs :
      /\ NonDefault([ c EXCEPT !.confirmTokenEnv = <<>> ]) <= MaxNonDefault
      /\ (c.confirmTokenEnv # <<>> => c.HIGH_STAKES_CONFIRM_MODE = "strict") }

RequestTexts ==
  { << "hello" >>, << "debug", "function" >>, << "Transfer" >>, << "invoice" >>,
    << "invoice", "contract" >>, << "compare", "architecture" >> }

\* the shapes of a request: promptLen characters of text, image parts, tools
RequestShapes ==
  { [ promptLen |-> 40, hasMultimodal |-> FALSE, hasToolsDeclared |-> FALSE ],
    [ promptLen |-> 20000, hasMultimodal |-> FALSE, hasToolsDeclared |-> FALSE ],
    [ promptLen |-> 40, hasMultimodal |-> TRUE, hasToolsDeclared |-> FALSE ],
    [ promptLen |-> 40, hasMultimodal |-> FALSE, hasToolsDeclared |-> TRUE ] }

ConfirmValues ==
  { NoValue, Str(<< "c", "o", "n", "f", "i", "r", "m" >>), Str(<< "o", "k" >>),
    Str(<< " ", "O", "K" >>), Str(<< "t", "r", "u", "e" >>) }

\* the confirmation values of a request: at most one of the three places
\* carries one
Confirmations ==
  { k \in [ header : ConfirmValues, metadata : ConfirmValues, body : ConfirmValues ] :
      Cardinality({ f \in DOMAIN k : k[f] # NoValue }) <= 1 }

StreamValues == { "absent", "true", "false" }

Requests ==
  { [ stream |-> s, text |-> t, promptLen |-> sh.promptLen, hasMultimodal |-> sh.hasMultimodal,
      hasToolsDeclared |-> sh.hasToolsDeclared, header |-> k.header, metadata |-> k.metadata,
      body |-> k.body ] :
      s \in StreamValues, t \in RequestTexts, sh \in RequestShapes, k \in Confirmations }

NoProbe == [ kind |-> "none" ]

(***************************************************************************)
(* The handler's specification: one request under one configuration.  The  *)
(* handler reads the confirmation values of a request when the safety gate *)
(* triggers in strict mode, and the requests carry them in that case only. *)
(***************************************************************************)
Init ==
  /\ cfg \in Configs
  /\ req \in Requests
  /\ (~(cfg.HIGH_STAKES_CONFIRM_MODE = "strict" /\ detectSafetyGate(safetyTextOf(req)).triggered)
        => req.header = NoValue /\ req.metadata = NoValue /\ req.body = NoValue)
  /\ pc = "start"
  /\ safetyGate = NoGate
  /\ classifierResult = NoClassification
  /\ resolved = DefaultRouteDecision
  /\ routeDecision = DefaultRouteDecision
  /\ chain = NoChain
  /\ inFlight = {}
  /\ upstreamCalls = {}
  /\ escalationCalls = 0
  /\ selfCheckRuns = 0
  /\ result = NoResult
  /\ res = NoResponse
  /\ failures = 0
  /\ probe = NoProbe

Next ==
  \/ HandleRequest
  \/ ClassifierReply
  \/ ClassifierError
  \/ PrimaryOk
  \/ CallError
  \/ SelfCheckReply
  \/ SelfCheckError
  \/ EscalationOk
  \/ StreamData
  \/ StreamEnd
  \/ StreamError
  \/ ClientClose

Spec == Init /\ [][Next]_vars

(***************************************************************************)
(* detectSafetyGate on its own: a text of at most MaxTextLen words, the    *)
(* gate enabled or not; probe receives the result.                         *)
(***************************************************************************)
Vocab == { "hello", "wire", "Transfer", "SSN", "password", "invoice", "contract", "sign", NL }

PlainRequest(text) ==
  [ stream |-> "false", text |-> text, promptLen |-> 40, hasMultimodal |-> FALSE,
    hasToolsDeclared |-> FALSE, header |-> NoValue, metadata |-> NoValue, body |-> NoValue ]

\* the handler is not running
HandlerIdle ==
  /\ safetyGate = NoGate
  /\ classifierResult = NoClassification
  /\ resolved = DefaultRouteDecision
  /\ routeDecision = DefaultRouteDecision
  /\ upstreamCalls = {}
  /\ escalationCalls = 0
  /\ selfCheckRuns = 0
  /\ result = NoResult
  /\ res = NoResponse
  /\ failures = 0

InitGate ==
  /\ cfg \in { [ ConfigDefault EXCEPT !.ENABLE_SAFETY_GATE = g ] : g \in BOOLEAN }
  /\ req \in { PlainRequest(t) : t \in SeqsUpTo(Vocab, MaxTextLen) }
  /\ pc = "gate"
  /\ chain = NoChain
  /\ inFlight = {}
  /\ probe = NoProbe
  /\ HandlerIdle

DetectGate ==
  /\ pc = "gate"
  /\ probe' = [ kind |-> "gate", gate |-> detectSafetyGate(req.text) ]
  /\ pc' = "done"
  /\ UNCHANGED << cfg, req, safetyGate, classifierResult, resolved, routeDecision, chain, inFlight,
                  upstreamCalls, escalationCalls, selfCheckRuns, result, res, failures >>

NextGate == DetectGate

SpecGate == InitGate /\ [][NextGate]_vars

(***************************************************************************)
(* callWithModelCandidates on its own, for every candidate list the        *)
(* builders produce (a routed key with or without image parts, a judge     *)
(* chain, a forced literal id) and the empty list.  probe holds the        *)
(* argument, the log of the calls issued (candidate indices, in order) and *)
(* the outcome of the last call that completed.                            *)
(***************************************************************************)
ChainInputs ==
  { buildCandidatesForRoute([ modelKey |-> k, modelId |-> modelIdForKey(k) ],
                            [ hasMultimodal |-> m ]) : k \in ModelKeys, m \in BOOLEAN }
  \cup { judgeCandidates(k) : k \in {"nano", "sonnet", "unknown"} }
  \cup { buildCandidatesForRoute([ modelKey |-> Null, modelId |-> "vendor/custom-model" ],
                                 [ hasMultimodal |-> FALSE ]) }
  \cup { <<>> }

NoOutcome == [ ok |-> FALSE, status |-> 0, unavailable |-> FALSE, code |-> Null, at |-> 0 ]

okOutcome(ch) == [ ok |-> TRUE, status |-> 200, unavailable |-> FALSE, code |-> Null, at |-> ch.i ]

errorOutcome(ch, error) ==
  [ ok |-> FALSE, status |-> error.status, unavailable |-> error.unavailable,
    code |-> error.code, at |-> ch.i ]

RECURSIVE SeqOfSet(_)
SeqOfSet(S) ==
  IF S = {} THEN <<>>
  ELSE LET m == CHOOSE x \in S : \A y \in S : x <= y
       IN  << m >> \o SeqOfSet(S \ {m})

\* the calls issued when the loop awaits at ch
issuedCalls(ch) == SeqOfSet(awaitedCalls(ch))

InitChain ==
  /\ cfg = ConfigDefault
  /\ req = PlainRequest(<< "hello" >>)
  /\ pc = "call"
  /\ chain = NoChain
  /\ inFlight = {}
  /\ probe \in { [ kind |-> "chain", candidates |-> c, calls |-> <<>>, last |-> NoOutcome ] :
                   c \in ChainInputs }
  /\ HandlerIdle

ChainEnter ==
  /\ pc = "call"
  /\ IF probe.candidates = <<>>
       THEN /\ pc' = "thrown"
            /\ probe' = [ probe EXCEPT !.last = errorOutcome(chain, NoCandidatesError) ]
            /\ UNCHANGED << chain, inFlight >>
       ELSE /\ chain' = newChain("chain", probe.candidates)
            /\ inFlight' = awaitedCalls(chain')
            /\ probe' = [ probe EXCEPT !.calls = probe.calls \o issuedCalls(chain') ]
            /\ pc' = "chain"
  /\ UNCHANGED << cfg, req, safetyGate, classifierResult, resolved, routeDecision,
                  upstreamCalls, escalationCalls, selfCheckRuns, result, res, failures >>

ChainOk ==
  /\ pc = "chain"
  /\ inFlight # {}
  /\ pc' = "returned"
  /\ inFlight' = {}
  /\ probe' = [ probe EXCEPT !.last = okOutcome(chain) ]
  /\ UNCHANGED << cfg, req, safetyGate, classifierResult, resolved, routeDecision, chain,
                  upstreamCalls, escalationCalls, selfCheckRuns, result, res, failures >>

ChainError ==
  /\ pc = "chain"
  /\ inFlight # {}
  /\ \E error \in UpstreamErrors :
       IF chainThrows(chain, error)
         THEN /\ pc' = "thrown"
              /\ inFlight' = {}
              /\ probe' = [ probe EXCEPT !.last = errorOutcome(chain, error) ]
              /\ UNCHANGED chain
         ELSE /\ ContinueChain
              /\ probe' = [ probe EXCEPT !.last = errorOutcome(chain, error),
                                         !.calls = probe.calls \o issuedCalls(chain') ]
              /\ UNCHANGED pc
  /\ UNCHANGED << cfg, req, safetyGate, classifierResult, resolved, routeDecision,
                  upstreamCalls, escalationCalls, selfCheckRuns, result, res, failures >>

NextChain ==
  \/ ChainEnter
  \/ ChainOk
  \/ ChainError

SpecChain == InitChain /\ [][NextChain]_vars

(***************************************************************************)
(* Classification, resolution and guardrail on their own (the handler's    *)
(* three assignments before the primary call), for every configuration:    *)
(* the judge's reply, or its failure, is drawn from JudgeOutcomes.         *)
(***************************************************************************)
JudgeFailure == [ kind |-> "error", category |-> "", complexity |-> "", confidence |-> NaN,
                  high_stakes |-> FALSE ]

JudgeOutcomes == ClassifierReplies \cup { JudgeFailure }

\* what classifyRequest returns when the judge chain ends with outcome; sync
\* is what it computed before the call
classifyRequestWith(sync, outcome) ==
  IF sync.returned THEN sync.classification
  ELSE IF outcome.kind = "error" THEN classifyRequestOnError(sync.classification)
  ELSE classifyRequestOnReply(sync.classification, outcome)

routeProbe(gate, cls, rd0, r) ==
  [ kind |-> "route", gate |-> gate, classification |-> cls, resolved |-> rd0,
    guarded |-> applyCostGuardrails(rd0, cls, lastUserMessage(r), requestFeatures(r)) ]

InitRoute ==
  /\ cfg \in { c \in AllConfigs : c.confirmTokenEnv = <<>> /\ c.HIGH_STAKES_CONFIRM_MODE = "prompt" }
  /\ req \in { r \in Requests : r.stream = "false" /\ r.header = NoValue
                                /\ r.metadata = NoValue /\ r.body = NoValue }
  /\ pc = "route"
  /\ chain = NoChain
  /\ inFlight = {}
  /\ probe = NoProbe
  /\ HandlerIdle

RouteRequest ==
  /\ pc = "route"
  /\ \E gate \in { detectSafetyGate(safetyTextOf(req)) } :
       \E sync \in { classifyRequestSync(classificationText(req), requestFeatures(req), gate) } :
         \E outcome \in JudgeOutcomes :
           \E cls \in { classifyRequestWith(sync, outcome) } :
             \E rd0 \in { resolveRouteDecision(cls, gate) } :
               probe' = routeProbe(gate, cls, rd0, req)
  /\ pc' = "done"
  /\ UNCHANGED << cfg, req, safetyGate, classifierResult, resolved, routeDecision, chain, inFlight,
                  upstreamCalls, escalationCalls, selfCheckRuns, result, res, failures >>

NextRoute == RouteRequest

SpecRoute == InitRoute /\ [][NextRoute]_vars

(***************************************************************************)
(* The decision taken after the first self-check, on its own: for every    *)
(* route decision the resolver and the guardrail produce, every model of   *)
(* its candidate chain as the one that answered, and every score.  probe   *)
(* holds the score and the answering model, then what the handler decides: *)
(* escalate (shouldEscalateFromSelfCheck), ladder (buildEscalationTarget), *)
(* target (the model of the escalation call, or Null) and lowConfidence.   *)
(***************************************************************************)
Scores == 0..6

Classifications ==
  { [ NoClassification EXCEPT !.categoryId = c, !.complexity = x, !.confidence = 3,
                              !.highStakes = (c = "high_stakes"), !.source = "model" ] :
      c \in Range(CATEGORY_IDS), x \in Range(COMPLEXITY_ORDER) }

DecideConfigs ==
  { c \in AllConfigs : /\ c.confirmTokenEnv = <<>>
                       /\ c.HIGH_STAKES_CONFIRM_MODE = "prompt"
                       /\ c.ENABLE_SAFETY_GATE
                       /\ c.ROUTING_PROFILE = "budget" }

DecideRequests ==
  { [ PlainRequest(t) EXCEPT !.promptLen = sh.promptLen, !.hasMultimodal = sh.hasMultimodal ] :
      t \in { << "hello" >>, << "compare", "architecture" >> },
      sh \in { [ promptLen |-> 40, hasMultimodal |-> FALSE ],
               [ promptLen |-> 40000, hasMultimodal |-> FALSE ],
               [ promptLen |-> 40, hasMultimodal |-> TRUE ] } }

\* the route decision of the handler for a classification
guardedRoute(cls, r) ==
  applyCostGuardrails(resolveRouteDecision(cls, NoGate), cls, lastUserMessage(r), requestFeatures(r))

answeringKeys(rd, r) ==
  { c.modelKey : c \in Range(buildCandidatesForRoute(rd, requestFeatures(r))) }

decisionProbe(score, finalModelKey, rd, r) ==
  \E tgt \in { escalationTargetFor(score, rd, finalModelKey, requestFeatures(r)) } :
    probe' = [ kind |-> "decide", score |-> score, finalModelKey |-> finalModelKey,
               decided |-> TRUE,
               escalate |-> shouldEscalateFromSelfCheck(score, rd),
               ladder |-> buildEscalationTarget(finalModelKey, score, rd, requestFeatures(r)),
               target |-> tgt,
               lowConfidence |-> IF tgt = Null THEN lowConfidenceFor(score, rd) ELSE FALSE ]

InitDecide ==
  /\ cfg \in DecideConfigs
  /\ req \in DecideRequests
  /\ routeDecision \in { guardedRoute(cls, req) : cls \in Classifications }
  /\ probe \in { [ kind |-> "decide", score |-> s, finalModelKey |-> k, decided |-> FALSE,
                   escalate |-> FALSE, ladder |-> Null, target |-> Null, lowConfidence |-> FALSE ] :
                   s \in Scores, k \in answeringKeys(routeDecision, req) }
  /\ pc = "decide"
  /\ chain = NoChain
  /\ inFlight = {}
  /\ safetyGate = NoGate
  /\ classifierResult = NoClassification
  /\ resolved = DefaultRouteDecision
  /\ upstreamCalls = {}
  /\ escalationCalls = 0
  /\ selfCheckRuns = 0
  /\ result = NoResult
  /\ res = NoResponse
  /\ failures = 0

DecideEscalation ==
  /\ pc = "decide"
  /\ decisionProbe(probe.score, probe.finalModelKey, routeDecision, req)
  /\ pc' = "done"
  /\ UNCHANGED << cfg, req, safetyGate, classifierResult, resolved, routeDecision, chain, inFlight,
                  upstreamCalls, escalationCalls, selfCheckRuns, result, res, failures >>

NextDecide == DecideEscalation

SpecDecide == InitDecide /\ [][NextDecide]_vars

(***************************************************************************)
(* The route of a classification, on its own: the resolver, the cost       *)
(* guardrail and the candidate chain, for every category and complexity    *)
(* under every routing profile, cost mode and premium setting, forced or   *)
(* not, for requests with and without image parts and tools.  probe holds  *)
(* the candidate chain of the guarded decision and what the guardrail      *)
(* returns when it is applied to its own output; the primary call then     *)
(* walks the chain, one candidate per retryable failure.                   *)
(***************************************************************************)
GuardConfigs ==
  { c \in AllConfigs : /\ c.confirmTokenEnv = <<>>
                       /\ c.HIGH_STAKES_CONFIRM_MODE = "prompt"
                       /\ c.ENABLE_SAFETY_GATE }

GuardRequests ==
  DecideRequests \cup { [ PlainRequest(<< "hello" >>) EXCEPT !.hasToolsDeclared = TRUE ] }

InitGuard ==
  /\ cfg \in GuardConfigs
  /\ req \in GuardRequests
  /\ classifierResult \in Classifications
  /\ pc = "route"
  /\ probe = NoProbe
  /\ chain = NoChain
  /\ inFlight = {}
  /\ safetyGate = NoGate
  /\ resolved = DefaultRouteDecision
  /\ routeDecision = DefaultRouteDecision
  /\ upstreamCalls = {}
  /\ escalationCalls = 0
  /\ selfCheckRuns = 0
  /\ result = NoResult
  /\ res = NoResponse
  /\ failures = 0

ResolveAndGuard ==
  /\ pc = "route"
  /\ \E rd0 \in { resolveRouteDecision(classifierResult, safetyGate) } :
       /\ resolved' = rd0
       /\ routeDecision' = applyCostGuardrails(rd0, classifierResult, lastUserMessage(req),
                                               requestFeatures(req))
  /\ pc' = "guarded"
  /\ UNCHANGED << cfg, req, probe, safetyGate, classifierResult, chain, inFlight, upstreamCalls,
                  escalationCalls, selfCheckRuns, result, res, failures >>

BuildChain ==
  /\ pc = "guarded"
  /\ \E candidates \in { buildCandidatesForRoute(routeDecision, requestFeatures(req)) } :
       /\ probe' = [ kind |-> "guard",
                     candidates |-> candidates,
                     again |-> applyCostGuardrails(routeDecision, classifierResult,
                                                   lastUserMessage(req), requestFeatures(req)) ]
       /\ chain' = newChain("primary", candidates)
       /\ inFlight' = awaitedCalls(newChain("primary", candidates))
  /\ pc' = "calling"
  /\ UNCHANGED << cfg, req, safetyGate, classifierResult, resolved, routeDecision,
                  upstreamCalls, escalationCalls, selfCheckRuns, result, res, failures >>

\* the primary call in flight fails with a retryable error and the loop calls
\* the next candidate
PrimaryCallRetried ==
  /\ pc = "calling"
  /\ \E error \in UpstreamErrors :
       /\ isRetryableModelError(error)
       /\ ~chainThrows(chain, error)
  /\ ContinueChain
  /\ UNCHANGED << cfg, req, pc, probe, safetyGate, classifierResult, resolved, routeDecision,
                  upstreamCalls, escalationCalls, selfCheckRuns, result, res, failures >>

\* the primary call in flight answers, or fails and the loop throws
PrimaryCallEnds ==
  /\ pc = "calling"
  /\ pc' = "done"
  /\ inFlight' = {}
  /\ UNCHANGED << cfg, req, probe, safetyGate, classifierResult, resolved, routeDecision, chain,
                  upstreamCalls, escalationCalls, selfCheckRuns, result, res, failures >>

NextGuard == ResolveAndGuard \/ BuildChain \/ PrimaryCallRetried \/ PrimaryCallEnds

SpecGuard == InitGuard /\ [][NextGuard]_vars

(***************************************************************************)
(* The rate limiter in front of the chat-completions handler.  Time is     *)
(* counted in ticks of 15 seconds: the cleanup interval is 30 seconds, the *)
(* window 15 or 45 seconds.  probe holds the limiter's settings and state  *)
(* (now, lastRateLimitCleanupAt, rateLimitBuckets) and the requests        *)
(* answered so far: for each its key, the time, the reset time of its      *)
(* bucket and whether next() was called or 429 was answered.               *)
(* upstreamCalls holds the numbers of the requests for which the handler   *)
(* has called the upstream.                                                *)
(***************************************************************************)
MaxRateRequests == 4

MaxNow == 6

RATE_LIMIT_CLEANUP_INTERVAL_MS == 2

RateLimitWindows == { 1, 3 }

RateLimitMaxRequests == { 1, 2 }

RateLimitKeys == { "api_key:a", "ip:1" }

\* variant: expired or not, every bucket is deleted by the cleanup
cleanedBucketsAll(buckets, now) ==
  [ k \in {} |-> buckets[k] ]

cleanedBuckets(buckets, now) ==
  [ k \in { key \in DOMAIN buckets : ~(buckets[key].resetAt <= now) } |-> buckets[k] ]

maybeCleanupRateLimitBuckets(st, now) ==
  IF now - st.lastRateLimitCleanupAt < RATE_LIMIT_CLEANUP_INTERVAL_MS THEN st
  ELSE [ st EXCEPT !.lastRateLimitCleanupAt = now,
                   !.rateLimitBuckets = cleanedBuckets(st.rateLimitBuckets, now) ]

\* the bucket of the key: the stored one, or a new one when there is none
\* or the stored one has expired
bucketFor(st, key, now) ==
  IF key \notin DOMAIN st.rateLimitBuckets \/ st.rateLimitBuckets[key].resetAt <= now
    THEN [ count |-> 0, resetAt |-> now + st.RATE_LIMIT_WINDOW_MS ]
    ELSE st.rateLimitBuckets[key]

rateLimitPasses(st, bucket) ==
  bucket.count <= st.RATE_LIMIT_MAX_REQUESTS

\* st: the limiter's state after the cleanup
countRequest(st, key, now) ==
  LET bucket == [ bucketFor(st, key, now) EXCEPT !.count = @ + 1 ]
      passes == rateLimitPasses(st, bucket)
  IN  [ st EXCEPT
          !.rateLimitBuckets =
             [ k \in DOMAIN st.rateLimitBuckets \cup { key } |->
                 IF k = key THEN bucket ELSE st.rateLimitBuckets[k] ],
          !.requests = Append(@,
             [ key |-> key, at |-> now, resetAt |-> bucket.resetAt,
               remaining |-> Max2(0, st.RATE_LIMIT_MAX_REQUESTS - bucket.count),
               status |-> IF passes THEN "next" ELSE "429",
               code |-> IF passes THEN Null ELSE "rate_limit_exceeded" ]) ]

applyRequestRateLimit(st, key) ==
  IF ~st.RATE_LIMIT_ENABLED
    THEN [ st EXCEPT !.requests = Append(@,
             [ key |-> key, at |-> st.now, resetAt |-> 0, remaining |-> 0,
               status |-> "next", code |-> Null ]) ]
    ELSE countRequest(maybeCleanupRateLimitBuckets(st, st.now), key, st.now)

InitRate ==
  /\ cfg = ConfigDefault
  /\ req = PlainRequest(<< "hello" >>)
  /\ \E enabled \in BOOLEAN, window \in RateLimitWindows, max \in RateLimitMaxRequests :
       probe = [ kind |-> "rate",
                 RATE_LIMIT_ENABLED |-> enabled,
                 RATE_LIMIT_WINDOW_MS |-> window,
                 RATE_LIMIT_MAX_REQUESTS |-> max,
                 now |-> RATE_LIMIT_CLEANUP_INTERVAL_MS,
                 lastRateLimitCleanupAt |-> 0,
                 rateLimitBuckets |-> << >>,
                 requests |-> << >> ]
  /\ pc = "idle"
  /\ chain = NoChain
  /\ inFlight = {}
  /\ safetyGate = NoGate
  /\ classifierResult = NoClassification
  /\ resolved = DefaultRouteDecision
  /\ routeDecision = DefaultRouteDecision
  /\ upstreamCalls = {}
  /\ escalationCalls = 0
  /\ selfCheckRuns = 0
  /\ result = NoResult
  /\ res = NoResponse
  /\ failures = 0

\* Date.now() moves on
ClockTick ==
  /\ probe.now < MaxNow
  /\ probe' = [ probe EXCEPT !.now = @ + 1 ]
  /\ UNCHANGED << cfg, req, pc, safetyGate, classifierResult, resolved, routeDecision, chain,
                  inFlight, upstreamCalls, escalationCalls, selfCheckRuns, result, res, failures >>

\* a request to POST /v1/chat/completions passes through the middleware
RateLimitRequest ==
  /\ Len(probe.requests) < MaxRateRequests
  /\ \E key \in RateLimitKeys : probe' = applyRequestRateLimit(probe, key)
  /\ UNCHANGED << cfg, req, pc, safetyGate, classifierResult, resolved, routeDecision, chain,
                  inFlight, upstreamCalls, escalationCalls, selfCheckRuns, result, res, failures >>

\* the handler, entered through next(), calls the upstream for its request
HandlerCallsUpstream ==
  /\ \E i \in 1..Len(probe.requests) :
       /\ probe.requests[i].status = "next"
       /\ i \notin upstreamCalls
       /\ upstreamCalls' = upstreamCalls \cup { i }
  /\ UNCHANGED << cfg, req, pc, probe, safetyGate, classifierResult, resolved, routeDecision, chain,
                  inFlight, escalationCalls, selfCheckRuns, result, res, failures >>

NextRate == ClockTick \/ RateLimitRequest \/ HandlerCallsUpstream

SpecRate == InitRate /\ [][NextRate]_vars

(***************************************************************************)
(* heuristicClassification on its own: the classification of a text of at  *)
(* most MaxTextLen words, short or long, with or without tools and image   *)
(* parts, the safety gate enabled or not.  probe receives the gate result  *)
(* and the classification.                                                 *)
(***************************************************************************)
HeuristicVocab ==
  { "hello", "incident", "compliance", "legal", "sign", "Transfer", "report", "architecture" }

HeuristicShapes ==
  { [ promptLen |-> 40, hasMultimodal |-> FALSE, hasToolsDeclared |-> FALSE ],
    [ promptLen |-> 20000, hasMultimodal |-> FALSE, hasToolsDeclared |-> FALSE ],
    [ promptLen |-> 60000, hasMultimodal |-> FALSE, hasToolsDeclared |-> FALSE ],
    [ promptLen |-> 6000, hasMultimodal |-> TRUE, hasToolsDeclared |-> FALSE ],
    [ promptLen |-> 40, hasMultimodal |-> FALSE, hasToolsDeclared |-> TRUE ] }

InitHeuristic ==
  /\ cfg \in { [ ConfigDefault EXCEPT !.ENABLE_SAFETY_GATE = g ] : g \in BOOLEAN }
  /\ req \in { [ PlainRequest(t) EXCEPT !.promptLen = sh.promptLen,
                                        !.hasMultimodal = sh.hasMultimodal,
                                        !.hasToolsDeclared = sh.hasToolsDeclared ] :
                 t \in SeqsUpTo(HeuristicVocab, MaxTextLen), sh \in HeuristicShapes }
  /\ pc = "classify"
  /\ chain = NoChain
  /\ inFlight = {}
  /\ probe = NoProbe
  /\ HandlerIdle

ClassifyHeuristically ==
  /\ pc = "classify"
  /\ \E gate \in { detectSafetyGate(safetyTextOf(req)) } :
       probe' = [ kind |-> "heuristic",
                  gate |-> gate,
                  classification |-> heuristicClassification(classificationText(req),
                                                             requestFeatures(req), gate) ]
  /\ pc' = "done"
  /\ UNCHANGED << cfg, req, safetyGate, classifierResult, resolved, routeDecision, chain, inFlight,
                  upstreamCalls, escalationCalls, selfCheckRuns, result, res, failures >>

NextHeuristic == ClassifyHeuristically

SpecHeuristic == InitHeuristic /\ [][NextHeuristic]_vars

(***************************************************************************)
(* Properties.                                                             *)
(***************************************************************************)
SuppliedValues(r) == { r.header, r.metadata, r.body }

\* a supplied value equals the token once trimmed and lowercased
ValidConfirmation(r) ==
  \E v \in SuppliedValues(r) :
    v.isString /\ strToLowerCase(trim(v.chars)) = HIGH_STAKES_CONFIRM_TOKEN

\* the handler has passed the confirmation check in strict mode with the gate
\* triggered
GatedInStrictMode ==
  pc # "start" /\ cfg.HIGH_STAKES_CONFIRM_MODE = "strict" /\ safetyGate.triggered

\* C1: per request at most one escalation re-call is issued; it is issued
\* after the first self-check only, and the self-check that follows it ends
\* the request whatever its score.
C1_AtMostOneEscalation ==
  /\ escalationCalls <= 1
  /\ selfCheckRuns <= 2
  /\ (pc = "escalation" => selfCheckRuns = 1)
  /\ (selfCheckRuns = 2 => escalationCalls = 1 /\ pc \in {"selfcheck", "done"})

\* a request answered after one escalation whose second self-check scored 1
\* on a model that has a stronger model above it
C1_Witness ==
  /\ pc = "done"
  /\ res.status = 200
  /\ escalationCalls = 1
  /\ selfCheckRuns = 2
  /\ result.confidenceScore = 1
  /\ result.finalModelKey = "m25"

\* C2: in strict mode, a request on which the gate triggered and that carries
\* no valid confirmation ends with 409 high_stakes_confirmation_required and
\* no upstream call is made for it.
C2_StrictUnconfirmedIsBlocked ==
  (GatedInStrictMode /\ ~ValidConfirmation(req)) =>
    /\ pc = "done"
    /\ res.status = 409
    /\ res.code = "high_stakes_confirmation_required"
    /\ upstreamCalls = {}
    /\ inFlight = {}
    /\ selfCheckRuns = 0
    /\ escalationCalls = 0

C2_Witness ==
  /\ GatedInStrictMode
  /\ SuppliedValues(req) = { NoValue }
  /\ res.status = 409
  /\ upstreamCalls = {}

C4_GuardrailLeavesGatedAndForced ==
  (probe.kind = "route" /\ (probe.gate.triggered \/ probe.resolved.label = "FORCED")) =>
    probe.guarded = probe.resolved

\* a gated request keeps opus under the strict mode without premium access
C4_Witness ==
  /\ probe.kind = "route"
  /\ probe.gate.triggered
  /\ cfg.COST_EFFICIENCY_MODE = "strict"
  /\ ~cfg.ALLOW_DIRECT_PREMIUM_MODELS
  /\ cfg.FORCE_MODEL_ID = ""
  /\ probe.guarded.modelKey = "opus"
  /\ probe.guarded.label = "ALWAYS"

\* C5: when the gate triggered, classifyRequest returns high_stakes,
\* critical, confidence 5, and no call to the classifier is made.
C5_GateBypassesClassifier ==
  (pc # "start" /\ safetyGate.triggered /\ res.status # 409) =>
    /\ classifierResult.categoryId = "high_stakes"
    /\ classifierResult.complexity = "critical"
    /\ classifierResult.confidence = 5
    /\ "classifier" \notin upstreamCalls

C5_Witness ==
  /\ pc = "primary"
  /\ safetyGate.triggered
  /\ classifierResult.source = "safety_gate"
  /\ upstreamCalls = { "primary" }

\* the signals of the high_stakes category that the text of the request hits
HitSignals(text) ==
  { sig \in Range(classifierSignals["high_stakes"]) : MatchesPhrase(text, sig) }

HitsActionGrammar(text) == \E p \in HIGH_STAKES_ACTION_REGEX : MatchesPhrase(text, p)

HitsSynonym(text) == \E i \in DOMAIN HIGH_STAKES_SYNONYMS : MatchesPhrase(text, HIGH_STAKES_SYNONYMS[i])

\* C6: with the gate enabled, triggered holds exactly when the text is
\* action-like, hits a synonym, hits a strong signal or hits two distinct
\* weak signals; one weak signal alone does not trigger; a text matching the
\* action grammar triggers with actionLike = true.
C6_GateTriggerRule ==
  (probe.kind = "gate" /\ cfg.ENABLE_SAFETY_GATE) =>
    LET strong == HitSignals(req.text) \ HIGH_STAKES_WEAK_SIGNALS
        weak == HitSignals(req.text) \cap HIGH_STAKES_WEAK_SIGNALS
    IN  /\ probe.gate.triggered <=>
             \/ HitsActionGrammar(req.text)
             \/ HitsSynonym(req.text)
             \/ Cardinality(strong) >= 1
             \/ Cardinality(weak) >= 2
        /\ (Cardinality(weak) = 1 /\ strong = {} /\ ~HitsSynonym(req.text)
              /\ ~HitsActionGrammar(req.text) => ~probe.gate.triggered)
        /\ (HitsActionGrammar(req.text) => probe.gate.triggered /\ probe.gate.actionLike)
        /\ (probe.gate.actionLike => HitsActionGrammar(req.text))

\* two distinct weak signals, nothing else: triggered, not action-like
C6_Witness ==
  /\ probe.kind = "gate"
  /\ cfg.ENABLE_SAFETY_GATE
  /\ req.text = << "invoice", "hello", "contract" >>
  /\ probe.gate.triggered
  /\ ~probe.gate.actionLike

\* a failure is retryable: 429, 502, 503, 504, 404, or 400 with an
\* unavailable-style message
RetryableOutcome(o) ==
  o.status \in {429, 502, 503, 504, 404} \/ (o.status = 400 /\ o.unavailable)

\* a call of the chain fails in this step
FailureStep == pc = "chain" /\ probe'.last # probe.last /\ ~probe'.last.ok

\* the loop moves on to the next candidate in this step
MovesOn ==
  /\ pc' = "chain"
  /\ chain'.i = chain.i + 1
  /\ probe'.calls = Append(probe.calls, chain.i + 1)
  /\ inFlight' = { chain.i + 1 }

\* the chain ends in this step with the failure thrown
Aborts == pc' = "thrown" /\ inFlight' = {} /\ probe'.calls = probe.calls

\* C7: a failed attempt that has a next candidate moves on to it if and only
\* if the failure is retryable; a failure that is not retryable ends the
\* chain at once, and no call is issued after the chain has ended.
C7_RetryableIffNextCandidate ==
  [][ /\ FailureStep =>
           /\ (chain.i < Len(chain.candidates) => (MovesOn <=> RetryableOutcome(probe'.last)))
           /\ (~RetryableOutcome(probe'.last) => Aborts)
           /\ (MovesOn \/ Aborts)
      /\ (pc = "thrown" => probe'.calls = probe.calls /\ inFlight' = {}) ]_vars

\* the second candidate failed with 401 after the first failed retryably:
\* the chain ended with candidates left
C7_Witness ==
  /\ pc = "thrown"
  /\ probe.calls = << 1, 2 >>
  /\ probe.last.status = 401
  /\ probe.last.at = 2
  /\ Len(probe.candidates) > 2

\* the model ids of the candidates called so far
CalledModels == [ k \in 1..Len(probe.calls) |-> probe.candidates[probe.calls[k]].modelId ]

\* C8: at most one call is in flight; the calls are those of candidates
\* 1, 2, ..., k in this order, each candidate and each model once; a call is
\* issued at the start and after a retryable failure of the candidate before
\* it, and none is issued after a success.
C8_SequentialChain ==
  /\ [](/\ Cardinality(inFlight) <= 1
        /\ probe.kind = "chain" =>
             /\ Len(probe.calls) <= Len(probe.candidates)
             /\ \A k \in 1..Len(probe.calls) : probe.calls[k] = k
             /\ \A a, b \in 1..Len(probe.calls) : CalledModels[a] = CalledModels[b] => a = b
             /\ (inFlight # {} => inFlight = { Len(probe.calls) })
             /\ (pc = "returned" => probe.last.ok /\ probe.last.at = Len(probe.calls)))
  /\ [][ /\ (probe'.calls # probe.calls =>
               \/ pc = "call" /\ probe.calls = <<>> /\ probe'.calls = << 1 >>
               \/ /\ pc = "chain"
                  /\ ~probe'.last.ok
                  /\ RetryableOutcome(probe'.last)
                  /\ probe'.last.at = Len(probe.calls)
                  /\ probe'.calls = Append(probe.calls, Len(probe.calls) + 1))
         /\ (pc = "returned" => probe'.calls = probe.calls /\ inFlight' = {}) ]_vars

\* the third candidate answered after two retryable failures
C8_Witness ==
  /\ pc = "returned"
  /\ probe.calls = << 1, 2, 3 >>
  /\ probe.last.ok
  /\ probe.last.at = 3

C10_StreamingSkipsSelfCheck ==
  (pc # "start" /\ req.stream # "false") =>
    /\ selfCheckRuns = 0
    /\ escalationCalls = 0
    /\ upstreamCalls \subseteq { "classifier", "primary" }
    /\ pc \notin { "selfcheck", "escalation" }
    /\ (res.headers.set => ~res.headers.escalated /\ res.headers.confidenceScore = 0)
    /\ (pc = "streaming" =>
          /\ res.status = 200
          /\ res.kind = "stream"
          /\ res.headers.set
          /\ res.headers.finalModel = chain.candidates[chain.i].modelId)

\* a request without a stream field, relayed to its end
C10_Witness ==
  /\ req.stream = "absent"
  /\ pc = "done"
  /\ res.kind = "stream"
  /\ res.chunks > 0
  /\ res.ended
  /\ res.headers.set
  /\ upstreamCalls = { "classifier", "primary" }

\* the candidate chain of a forced request: the forced model id alone
ForcedChain == << [ modelKey |-> Null, modelId |-> cfg.FORCE_MODEL_ID ] >>

\* C11: with a forced-model override configured, a request issues no
\* classifier call, no self-check call and no escalation call; its only
\* chain is the primary chain, whose single candidate is the forced model
\* id, so every call awaited or attempted targets it; a 200 response carries
\* route label FORCED, escalated = false and no confidence score.
C11_ForcedModelBypassesJudges ==
  (cfg.FORCE_MODEL_ID # "" /\ pc # "start") =>
    /\ upstreamCalls \subseteq { "primary" }
    /\ selfCheckRuns = 0
    /\ escalationCalls = 0
    /\ ~result.escalated
    /\ (chain.purpose # "none" =>
          /\ chain.purpose = "primary"
          /\ chain.candidates = ForcedChain
          /\ \A i \in inFlight : chain.candidates[i].modelId = cfg.FORCE_MODEL_ID
          /\ \A k \in 1..Len(chain.attempted) : chain.attempted[k] = cfg.FORCE_MODEL_ID)
    /\ (res.status = 200 =>
          /\ res.headers.set
          /\ res.headers.routeLabel = "FORCED"
          /\ ~res.headers.escalated
          /\ res.headers.confidenceScore = 0
          /\ res.headers.initialModel = cfg.FORCE_MODEL_ID
          /\ res.headers.finalModel = cfg.FORCE_MODEL_ID
          /\ (res.kind = "json" => res.body.by = cfg.FORCE_MODEL_ID))

\* a forced non-streaming request answered with 200
C11_Witness ==
  /\ cfg.FORCE_MODEL_ID # ""
  /\ req.stream = "false"
  /\ pc = "done"
  /\ res.status = 200
  /\ res.kind = "json"
  /\ res.headers.routeLabel = "FORCED"
  /\ upstreamCalls = { "primary" }

\* C12: the escalation decision is: never for a forced route, never for a
\* score of 4 or more, always for a score of 1 or less, and for a score of
\* 2 or 3 exactly when the category is high_stakes, or the cost mode is not
\* strict, or the adjusted complexity is complex or critical; a score of 2
\* or 3 that does not escalate is accepted with low_confidence set.
C12_EscalationDecision ==
  (probe.kind = "decide" /\ probe.decided) =>
    LET forced == cfg.FORCE_MODEL_ID # "" \/ routeDecision.label = "FORCED"
        moderate == \/ routeDecision.categoryId = "high_stakes"
                    \/ cfg.COST_EFFICIENCY_MODE # "strict"
                    \/ routeDecision.adjustedComplexity \in {"complex", "critical"}
    IN  /\ (forced => ~probe.escalate)
        /\ (probe.score >= 4 => ~probe.escalate)
        /\ (~forced /\ probe.score <= 1 => probe.escalate)
        /\ (~forced /\ probe.score \in {2, 3} => (probe.escalate <=> moderate))
        /\ (~probe.escalate /\ probe.score \in {2, 3} /\ ~forced =>
              probe.target = Null /\ probe.lowConfidence)

\* strict mode, a standard request, score 3: accepted with low confidence
C12_Witness ==
  /\ probe.kind = "decide"
  /\ probe.decided
  /\ cfg.COST_EFFICIENCY_MODE = "strict"
  /\ cfg.FORCE_MODEL_ID = ""
  /\ routeDecision.categoryId = "coding"
  /\ routeDecision.adjustedComplexity = "standard"
  /\ probe.score = 3
  /\ ~probe.escalate
  /\ probe.lowConfidence

\* the scenario of a first self-check in strict mode on a request that is
\* neither streamed, forced, high_stakes nor critical
StrictNonCritical ==
  /\ cfg.COST_EFFICIENCY_MODE = "strict"
  /\ cfg.FORCE_MODEL_ID = ""
  /\ routeDecision.label # "FORCED"
  /\ req.stream = "false"
  /\ routeDecision.categoryId # "high_stakes"
  /\ routeDecision.adjustedComplexity # "critical"

\* the rungs the ladder climbs to from the model that answered; from m25 the
\* rung is picked by context: sonnet or a specialist
NextRungs(modelKey) ==
  IF modelKey = "m25" THEN { "sonnet", "glm5", "kimiK25", "gem31Pro" }
  ELSE { ESCALATION_PATH[modelKey] }

\* C13: in strict cost mode, for a request that is not streamed, not forced,
\* not high_stakes and not critical, a first self-check score of 1 leads to
\* the one escalation call of the request, targeted at the next rung of the
\* escalation ladder of the backend that produced the answer, and never at
\* opus.  (An answer of opus itself has no rung above it and is left out.)
C13_ScoreOneClimbsOneRung ==
  (/\ probe.kind = "decide"
   /\ probe.decided
   /\ StrictNonCritical
   /\ probe.score = 1
   /\ probe.finalModelKey # "opus") =>
    /\ probe.target # Null
    /\ probe.target \in NextRungs(probe.finalModelKey)
    /\ probe.target # "opus"

\* the budget-floor exception applies to the configuration
BudgetFloor == cfg.ALLOW_HIGH_STAKES_BUDGET_FLOOR /\ cfg.ROUTING_PROFILE = "budget"

\* the handler has resolved and guarded the route of the request
Routed == pc \notin { "start", "classifier" } /\ upstreamCalls # {}

\* C14: a high_stakes request routed under the budget-floor exception
\* (label FLOOR) whose first self-check scores below 5 is escalated, unless
\* opus produced the answer, and the escalation call targets opus; a
\* high_stakes category resolves to sonnet with label FLOOR under the
\* exception and to opus without it (no forced model being configured).
C14_FloorEscalatesToOpus ==
  (Routed /\ cfg.FORCE_MODEL_ID = "" /\ routeDecision.categoryId = "high_stakes") =>
    /\ IF BudgetFloor
         THEN routeDecision.modelKey = "sonnet" /\ routeDecision.label = "FLOOR"
         ELSE routeDecision.modelKey = "opus" /\ routeDecision.label = "ALWAYS"
    /\ routeDecision.modelKey = resolved.modelKey
    /\ (routeDecision.label = "FLOOR" =>
          /\ (pc = "done" /\ selfCheckRuns = 1 /\ ~result.escalated =>
                result.confidenceScore = 5 \/ result.finalModelKey = "opus")
          /\ (pc = "escalation" =>
                /\ escalationCalls = 1
                /\ result.escalated
                /\ result.confidenceScore < 5
                /\ chain.candidates[1].modelKey = "opus"))

\* a FLOOR answer scored 4 is being escalated to opus
C14_Witness ==
  /\ routeDecision.categoryId = "high_stakes"
  /\ routeDecision.label = "FLOOR"
  /\ pc = "escalation"
  /\ result.confidenceScore = 4
  /\ result.finalModelKey = "sonnet"
  /\ chain.i = 1
  /\ chain.candidates[1].modelKey = "opus"
  /\ inFlight = { 1 }

\* the judge's replies that cannot be parsed into a score
UnparsableReplies == { reply \in SelfCheckReplies : reply.kind = "garbage" \/ ~reply.score.finite }

\* the first self-check ends in this step
FirstSelfCheckEnds == pc = "selfcheck" /\ ~result.escalated /\ pc' # "selfcheck"

\* the judge chain of the first self-check throws in this step
JudgeGaveUp == FirstSelfCheckEnds /\ failures' = failures + 1

\* the route is the budget-floor route of a high_stakes request
FloorRoute == routeDecision.categoryId = "high_stakes" /\ routeDecision.label = "FLOOR"

\* C15 as stated: a judge that is unreachable or whose output is unparsable
\* for the primary answer gives the score 4, and no escalation call is made,
\* in every configuration.
C15_JudgeFailureNeverEscalates ==
  /\ [](\A reply \in UnparsableReplies : parseSelfCheckOutput(reply).score = 4)
  /\ [][ (JudgeGaveUp \/ (FirstSelfCheckEnds /\ result'.confidenceScore = 4)) =>
           /\ result'.confidenceScore = 4
           /\ escalationCalls' = 0
           /\ pc' = "done"
           /\ ~result'.escalated ]_vars

\* C15, amended: the score defaults to 4 and the answer is accepted without
\* an escalation call, except on the budget-floor route of a high_stakes
\* request, where the score 4 is below 5 and the answer of a model other
\* than opus is escalated to opus.
C15_JudgeFailureAcceptsUnlessFloor ==
  /\ [](\A reply \in UnparsableReplies : parseSelfCheckOutput(reply).score = 4)
  /\ [][ (JudgeGaveUp \/ (FirstSelfCheckEnds /\ result'.confidenceScore = 4)) =>
           /\ result'.confidenceScore = 4
           /\ IF FloorRoute /\ result.finalModelKey # "opus"
                THEN /\ pc' = "escalation"
                     /\ escalationCalls' = 1
                     /\ chain'.candidates[1].modelKey = "opus"
                ELSE /\ escalationCalls' = 0
                     /\ pc' = "done"
                     /\ ~result'.escalated
                     /\ (result.finalResponse.wellFormed => res'.status = 200) ]_vars

\* the first judge candidate answered 401 on the primary answer of a
\* gate-triggered request: score 4, answer returned, no escalation
C15_Witness ==
  /\ safetyGate.triggered
  /\ ~FloorRoute
  /\ pc = "done"
  /\ chain.purpose = "selfcheck"
  /\ chain.i = 1
  /\ failures = 1
  /\ selfCheckRuns = 1
  /\ result.confidenceScore = 4
  /\ ~result.escalated
  /\ escalationCalls = 0
  /\ res.status = 200

\* the classification the heuristic gives the request
HeuristicOfRequest ==
  heuristicClassification(classificationText(req), requestFeatures(req), safetyGate)

\* the classifier chain ends in this step
ClassifierEnds == pc = "classifier" /\ pc' # "classifier"

\* a self-check chain throws in this step
SelfCheckThrows == pc = "selfcheck" /\ failures' = failures + 1 /\ pc' # "selfcheck"

\* C16: a failure of a judge call never fails the request.  When the
\* classifier chain throws or its output is unparsable, the heuristic
\* classification is used and the primary call is issued; when a self-check
\* chain throws, the score is the default 4 and the handler goes on to the
\* escalation call or to the response.  An error response comes from the
\* confirmation check, from a primary or escalation chain, or from a
\* malformed final body, never from a judge chain.
C16_JudgeErrorsAreNotFatal ==
  /\ [](res.kind = "error" =>
          \/ res.status = 409 /\ upstreamCalls = {}
          \/ chain.purpose \in { "primary", "escalation" }
          \/ chain.purpose = "selfcheck" /\ res.status = 502 /\ ~result.finalResponse.wellFormed)
  /\ [][ /\ (ClassifierEnds =>
               /\ pc' = "primary"
               /\ res' = res
               /\ "primary" \in upstreamCalls'
               /\ inFlight' = { 1 }
               /\ (failures' = failures + 1 =>
                     classifierResult' =
                       [ HeuristicOfRequest EXCEPT !.source = "heuristic_on_classifier_error" ])
               /\ (classifierResult'.source # "model" =>
                     /\ classifierResult'.categoryId = HeuristicOfRequest.categoryId
                     /\ classifierResult'.complexity = HeuristicOfRequest.complexity))
         /\ (SelfCheckThrows =>
               /\ result'.confidenceScore = 4
               /\ \/ pc' = "escalation" /\ res' = res
                  \/ pc' = "done" /\ res'.status = 200 /\ res'.kind = "json"
                  \/ pc' = "done" /\ res'.status = 502 /\ ~result.finalResponse.wellFormed) ]_vars

\* the classifier chain threw, the heuristic classified, the primary model
\* answered and the request ended with 200
C16_Witness ==
  /\ pc = "done"
  /\ res.status = 200
  /\ classifierResult.source = "heuristic_on_classifier_error"
  /\ failures = 1
  /\ "classifier" \in upstreamCalls
  /\ "primary" \in upstreamCalls

\* a non-streaming request ended with a final upstream body in hand: the
\* primary call answered and no later chain threw
FinalBodyProduced ==
  /\ pc = "done"
  /\ req.stream = "false"
  /\ result.finalModelId # Null
  /\ chain.purpose # "escalation"

\* C17: a 2xx upstream completion without a choices array is never returned
\* as a success: the body of every 200 non-streaming response has a choices
\* array, and a malformed final body is answered with the 502 error
\* envelope.
C17_MalformedBodyIsNotReturned ==
  /\ (res.status = 200 /\ res.kind = "json" =>
        /\ res.body.wellFormed
        /\ res.body = result.finalResponse
        /\ req.stream = "false")
  /\ (FinalBodyProduced =>
        IF result.finalResponse.wellFormed
          THEN res.status = 200 /\ res.kind = "json"
          ELSE res.status = 502 /\ res.kind = "error" /\ res.body = NoBody)

\* the primary model answered 200 without choices, the self-check ran, and
\* the caller got 502
C17_Witness ==
  /\ FinalBodyProduced
  /\ ~result.finalResponse.wellFormed
  /\ failures = 0
  /\ selfCheckRuns = 1
  /\ res.status = 502
  /\ res.kind = "error"

\* C18: for every route decision the resolver and the guardrail produce,
\* buildCandidatesForRoute returns a chain that is not empty and in which no
\* backend id occurs twice.
C18_ChainNonEmptyNoDuplicates ==
  probe.kind = "guard" =>
    /\ Len(probe.candidates) >= 1
    /\ \A a, b \in 1..Len(probe.candidates) :
         probe.candidates[a].modelId = probe.candidates[b].modelId => a = b
    /\ \A a \in 1..Len(probe.candidates) : probe.candidates[a].modelId # Null

\* a request with image parts routed to the multimodal specialist: the key
\* is also one of the multimodal fallback keys
C18_Witness ==
  /\ probe.kind = "guard"
  /\ req.hasMultimodal
  /\ routeDecision.modelKey = "kimiK25"
  /\ Len(probe.candidates) = Len(MULTIMODAL_FALLBACK_KEYS)
  /\ probe.candidates[1].modelKey = "kimiK25"

\* C19: the cost guardrail is idempotent: applied again to its own output
\* with the same classification, request text and features, it returns a
\* decision identical to that output, the justification trail included.
C19_GuardrailIdempotent ==
  probe.kind = "guard" => probe.again = routeDecision


\* the guardrail has returned its decision for a request that is neither
\* forced nor high_stakes, with direct top-tier access disabled
PremiumBlockedCase ==
  /\ pc \in {"guarded", "calling", "done"}
  /\ ~cfg.ALLOW_DIRECT_PREMIUM_MODELS
  /\ cfg.FORCE_MODEL_ID = ""
  /\ resolved.categoryId # "high_stakes"

Level(c) ==
  CASE c = "simple" -> 1
    [] c = "standard" -> 2
    [] c = "complex" -> 3
    [] c = "critical" -> 4
    [] OTHER -> 0

\* categories whose injection risk is MEDIUM-HIGH, HIGH or CRITICAL
RiskyCategories ==
  { "core_loop", "retrieval", "planning", "orchestration", "coding", "research", "high_stakes" }

\* the resolver has shifted the classified complexity of a non-forced request
ProfileApplied ==
  /\ probe.kind # "decide"
  /\ pc \in {"guarded", "calling", "done"}
  /\ cfg.FORCE_MODEL_ID = ""

\* C21: the profile shift is monotonic and saturating: quality never lowers,
\* balanced keeps, budget never raises the complexity and keeps it for the
\* categories rated MEDIUM-HIGH or above; a shift moves one level, except at
\* the ends of the order, where it stays.
C21_ProfileShiftMonotonic ==
  ProfileApplied =>
    LET c == Level(resolved.complexity)
        a == Level(resolved.adjustedComplexity)
    IN  /\ c = Level(classifierResult.complexity)
        /\ a \in 1..4
        /\ cfg.ROUTING_PROFILE = "quality" => a = (IF c = 4 THEN 4 ELSE c + 1)
        /\ cfg.ROUTING_PROFILE = "balanced" => a = c
        /\ cfg.ROUTING_PROFILE = "budget" =>
             IF resolved.categoryId \in RiskyCategories THEN a = c
             ELSE a = (IF c = 1 THEN 1 ELSE c - 1)

\* a budget shift one level down, for a category of low injection risk
C21_Witness ==
  /\ ProfileApplied
  /\ cfg.ROUTING_PROFILE = "budget"
  /\ resolved.categoryId = "creative"
  /\ resolved.complexity = "complex"
  /\ resolved.adjustedComplexity = "standard"


\* the requests, by number, that the limiter counted in the window of key
\* that ends at resetAt
InWindow(key, resetAt) ==
  { i \in 1..Len(probe.requests) :
      probe.requests[i].key = key /\ probe.requests[i].resetAt = resetAt }

\* C22: with rate limiting enabled, the windows of a key are intervals of
\* RATE_LIMIT_WINDOW_MS that do not overlap, each request is counted in the
\* window its time falls in, the first RATE_LIMIT_MAX_REQUESTS requests of a
\* window reach the handler and every further one is answered 429
\* rate_limit_exceeded; the upstream is called only for requests that reached
\* the handler.
C22_RateLimitPerKeyAndWindow ==
  (probe.kind = "rate" /\ probe.RATE_LIMIT_ENABLED) =>
    /\ \A i \in 1..Len(probe.requests) :
         LET r == probe.requests[i]
             earlier == { j \in InWindow(r.key, r.resetAt) : j < i }
         IN  /\ r.resetAt - probe.RATE_LIMIT_WINDOW_MS <= r.at
             /\ r.at < r.resetAt
             /\ (r.status = "next") = (Cardinality(earlier) < probe.RATE_LIMIT_MAX_REQUESTS)
             /\ (r.status = "429") = (r.code = "rate_limit_exceeded")
             /\ r.status \in { "next", "429" }
             /\ r.status = "429" => i \notin upstreamCalls
             /\ \A j \in 1..Len(probe.requests) :
                  (probe.requests[j].key = r.key /\ probe.requests[j].resetAt > r.resetAt)
                    => probe.requests[j].resetAt - probe.RATE_LIMIT_WINDOW_MS >= r.resetAt
    /\ \A key \in RateLimitKeys, resetAt \in 0..(MaxNow + 4) :
         Cardinality({ i \in InWindow(key, resetAt) : probe.requests[i].status = "next" })
           <= probe.RATE_LIMIT_MAX_REQUESTS

\* two keys interleaved in one window of 45 seconds with a limit of one: the
\* second request of the first key is answered 429 after a cleanup ran, the
\* request of the other key in between reached the handler and called the
\* upstream
C22_Witness ==
  /\ probe.kind = "rate"
  /\ probe.RATE_LIMIT_ENABLED
  /\ probe.RATE_LIMIT_MAX_REQUESTS = 1
  /\ Len(probe.requests) = 3
  /\ probe.requests[1].key = "api_key:a" /\ probe.requests[1].status = "next"
  /\ probe.requests[2].key = "ip:1" /\ probe.requests[2].status = "next"
  /\ probe.requests[3].key = "api_key:a" /\ probe.requests[3].status = "429"
  /\ probe.requests[3].at >= probe.requests[1].at + RATE_LIMIT_CLEANUP_INTERVAL_MS
  /\ upstreamCalls = { 1, 2 }


\* the primary chain of a streaming request gives up: a candidate failed
\* before anything was sent to the caller, and no candidate is tried next
StreamChainThrows ==
  /\ pc = "primary"
  /\ streamRequested(req)
  /\ pc' = "done"

\* C23: on the streaming path an upstream error before the flush ends the
\* request with a JSON error of the failing status; once the headers are
\* flushed the response stays the relayed stream with status 200, and an
\* upstream error only ends it; the routing headers are set before the
\* first relayed byte.
C23_NoJsonErrorAfterFlush ==
  /\ [](res.headersSent =>
          /\ res.kind = "stream"
          /\ res.status = 200
          /\ res.headers.set
          /\ streamRequested(req))
  /\ [](res.chunks > 0 => res.headersSent)
  /\ [][ /\ StreamChainThrows =>
              /\ ~res.headersSent
              /\ res.chunks = 0
              /\ res'.kind = "error"
              /\ res'.status >= 400
              /\ ~res'.headersSent
         /\ res.headersSent =>
              /\ res'.headersSent
              /\ res'.kind = "stream"
              /\ res'.status = 200
              /\ res'.headers = res.headers
              /\ res'.body = res.body
         /\ res'.chunks # res.chunks => res.headers.set
         /\ (pc = "streaming" /\ pc' = "done") => res'.chunks = res.chunks
     ]_vars

\* a streaming request whose only primary candidate failed with a status
\* that is not retryable: the answer is the JSON error, nothing was flushed
C23_Witness ==
  /\ streamRequested(req)
  /\ pc = "done"
  /\ upstreamCalls = { "classifier", "primary" }
  /\ res.kind = "error"
  /\ res.status = 400
  /\ ~res.headersSent
  /\ res.chunks = 0


\* C24: in strict confirmation mode no primary or escalation call is made
\* for a request whose route is high_stakes, whether the safety gate or the
\* classifier set the category, unless a valid confirmation token came with
\* the request.
C24_StrictHighStakesNeedsToken ==
  ( /\ cfg.HIGH_STAKES_CONFIRM_MODE = "strict"
    /\ routeDecision.categoryId = "high_stakes"
    /\ ~ValidConfirmation(req) )
  => upstreamCalls \cap { "primary", "escalation" } = {}


\* the forced-critical triggers of a classified text
CriticalVocabulary ==
  { <<"production", "outage">>, <<"incident">>, <<"root", "cause">>, <<"irreversible">>,
    <<"mission", "critical">>, <<"compliance">> }

LegalTerms == { <<"legal">>, <<"contract">> }

BindingVerbs ==
  { <<"sign">>, <<"approve">>, <<"execute">>, <<"submit">>, <<"file">>, <<"binding">>,
    <<"finalize">>, <<"enforce">> }

ForcedCriticalTrigger ==
  \/ probe.gate.actionLike
  \/ \E p \in CriticalVocabulary : MatchesPhrase(safetyTextOf(req), p)
  \/ /\ \E p \in LegalTerms : MatchesPhrase(safetyTextOf(req), p)
     /\ \E p \in BindingVerbs : MatchesPhrase(safetyTextOf(req), p)

\* C26: in the heuristic derivation the forced-critical triggers come first:
\* a text that is action-like, or carries irreversible/incident/compliance
\* vocabulary, or a legal term with a binding verb, gets complexity critical
\* whatever its length, phrasing, category and token count.
C26_ForcedCriticalFirst ==
  (probe.kind = "heuristic" /\ ForcedCriticalTrigger)
    => probe.classification.complexity = "critical"


\* the backend keys that accept image parts
MultimodalCapable == { "kimiK25", "gem31Pro", "grok", "nano", "sonnet", "opus" }

\* the key the chain in progress was built for: the route's backend for the
\* primary call, the escalation target for the escalation call
ChainRouteKey ==
  IF chain.purpose = "primary" THEN routeDecision.modelKey
  ELSE escalationTargetFor(result.confidenceScore, routeDecision, result.finalModelKey,
                           requestFeatures(req))

\* C25: for a multimodal request without a forced model, every candidate of
\* the primary chain and of the escalation chain, and so every backend
\* called, is multimodal-capable, and the chain starts with the backend it
\* was built for exactly when that backend is multimodal-capable.
C25_MultimodalChainsOnly ==
  ( /\ req.hasMultimodal
    /\ cfg.FORCE_MODEL_ID = ""
    /\ pc \in { "primary", "escalation" }
    /\ chain.purpose \in { "primary", "escalation" } )
  => /\ chain.candidates # << >>
     /\ \A k \in 1..Len(chain.candidates) : chain.candidates[k].modelKey \in MultimodalCapable
     /\ \A k \in inFlight : chain.candidates[k].modelKey \in MultimodalCapable
     /\ (chain.candidates[1].modelKey = ChainRouteKey) = (ChainRouteKey \in MultimodalCapable)

\* a multimodal request routed to a text-only backend: the chain starts with
\* the first multimodal-capable backend instead
C25_Witness ==
  /\ req.hasMultimodal
  /\ cfg.FORCE_MODEL_ID = ""
  /\ pc = "primary"
  /\ chain.purpose = "primary"
  /\ inFlight = { 1 }
  /\ routeDecision.modelKey \notin MultimodalCapable
  /\ chain.candidates[1].modelKey = "kimiK25"


\* the primary call of a request routed as high_stakes, without a forced
\* model and without the budget-floor exception
HighStakesPrimary ==
  /\ pc = "primary"
  /\ chain.purpose = "primary"
  /\ cfg.FORCE_MODEL_ID = ""
  /\ routeDecision.categoryId = "high_stakes"
  /\ ~(cfg.ALLOW_HIGH_STAKES_BUDGET_FLOOR /\ cfg.ROUTING_PROFILE = "budget")

\* C27: the primary chain of a high_stakes request without the budget-floor
\* exception starts with opus, for multimodal requests too; another backend
\* is called, and can answer, only after the opus call of this request
\* failed and the chain moved on.
C27_HighStakesStartsWithOpus ==
  /\ [](HighStakesPrimary =>
          /\ routeDecision.modelKey = "opus"
          /\ chain.candidates[1].modelKey = "opus"
          /\ chain.candidates[1].modelId = MODELS["opus"]
          /\ (chain.i = 1 => chain.attempted = << >>)
          /\ (chain.i > 1 => /\ chain.attempted[1] = MODELS["opus"]
                             /\ failures >= chain.i - 1))
  /\ [][ HighStakesPrimary =>
           /\ (chain'.purpose = "primary" /\ chain'.i # chain.i) =>
                /\ chain'.i = chain.i + 1
                /\ failures' = failures + 1
           /\ (pc' # "primary" /\ result'.initialModelId # Null
                 /\ result'.initialModelId # MODELS["opus"]) =>
                /\ chain.i > 1
                /\ chain.attempted[1] = MODELS["opus"]
                /\ result'.initialModelId = chain.candidates[chain.i].modelId
                /\ result'.usedFallback
     ]_vars

\* a multimodal high_stakes request: opus failed, the next multimodal-capable
\* backend answered
C27_Witness ==
  /\ cfg.FORCE_MODEL_ID = ""
  /\ routeDecision.categoryId = "high_stakes"
  /\ routeDecision.label = "ALWAYS"
  /\ req.hasMultimodal
  /\ pc = "done"
  /\ res.status = 200
  /\ failures = 1
  /\ result.initialModelId = MODELS["kimiK25"]
  /\ result.usedFallback


\* C28: with direct premium access disabled and the cost mode strict or
\* balanced, no call of the primary chain of a non-high-stakes, non-forced
\* request targets opus, whatever retryable failures came before it.
C28_PrimaryNeverCallsOpus ==
  ( /\ PremiumBlockedCase
    /\ cfg.COST_EFFICIENCY_MODE # "off"
    /\ pc = "calling" )
  => \A k \in inFlight : /\ chain.candidates[k].modelKey # "opus"
                         /\ chain.candidates[k].modelId # MODELS["opus"]


\* C29: a response that reports escalated = true names a final backend that
\* differs from the initial backend, whatever failed inside the escalation
\* chain; a response that reports escalated = false names the same backend
\* twice.
C29_EscalatedMeansOtherBackend ==
  (pc = "done" /\ res.status = 200 /\ res.headers.set) =>
    IF res.headers.escalated
      THEN res.headers.finalModel # res.headers.initialModel
      ELSE res.headers.finalModel = res.headers.initialModel


\* the escalation chain gives up: the call in flight fails and no candidate
\* is tried next
EscalationChainThrows ==
  /\ pc = "escalation"
  /\ chain.purpose = "escalation"
  /\ pc' = "done"
  /\ result' = result

=============================================================================
